---- MODULE Spec2Model ----
(***************************************************************************)
(* The store update pipeline of re-render: createStore, setState (config   *)
(* resolution, transformers, diff, before-middlewares, commit,             *)
(* after-middlewares, notify, catch/rollback), setStateAsync, getState,    *)
(* subscribe/unsubscribe, reHydrate, the action and selector wrappers, the *)
(* hooks proxy, validationMiddleware and immerTransformer.                 *)
(*                                                                         *)
(* One store is modelled.  A setState call is a sequence of steps; the     *)
(* position of the call is pc.  Each step ends where the code hands        *)
(* control to a user callback (transformer, middleware, listener, error    *)
(* handler) or returns to the caller.                                      *)
(*                                                                         *)
(* Spec:          the store and its callers (setState, setStateAsync, the  *)
(*                action wrappers, getState, selectors, subscribe,         *)
(*                unsubscribe, reHydrate).  User callbacks return or       *)
(*                throw; they do not call back into the store and do not   *)
(*                write to the arguments they are handed.                  *)
(* SpecReentrant: the same pipeline with user middlewares whose bodies     *)
(*                call store.setState.                                     *)
(* SpecHooks:     the hooks proxy (createHooks, safeGet) on a store that   *)
(*                holds any of a set of states.                            *)
(* SpecRender:    the pipeline and one component that reads the store      *)
(*                through a subscription hook (useReRenderStore).          *)
(* SpecPersist:   the store of tests/persist.test.ts, with or without its  *)
(*                persist engine: updates through the persist middleware,  *)
(*                persist.reHydrate, persist.clear, destroy, stores        *)
(*                created once more over the same storage, and the         *)
(*                continuations of the engine's async functions.           *)
(* SpecRoundTrip: the round trip persist, create once more, reHydrate.     *)
(* SpecMigrate:   a store with an engine of any version created over a     *)
(*                storage earlier stores have written: migrate and         *)
(*                reHydrate.                                               *)
(* SpecFold:      stores whose transformer chain holds more than one       *)
(*                transformer.                                             *)
(* SpecAlias:     the pipeline with user callbacks that write to the       *)
(*                arguments they are handed.                               *)
(* SpecPartial:   partial-object updates that name nested fields.          *)
(* SpecClear:     persist.clear and destroy over a storage that holds the  *)
(*                entries of another store.                                *)
(***************************************************************************)
EXTENDS Integers, Sequences, FiniteSets, TLC

VARIABLES
    metadata,           \* the metadata argument of createStore (initialState)
    fresh,              \* TRUE until the first operation after construction
    mergedConfig,       \* { ...globalConfig, ...metadata.storeConfig }
    validations,        \* metadata.validations || {}
    state,              \* the store's current state (the object `state` refers to)
    listeners,          \* the Set of listeners, in insertion order
    handles,            \* listeners for which subscribe() has returned an unsubscribe function
    subscribed,         \* the listeners the caller has subscribed and not removed since
    pc,                 \* position of the setState call in progress ("idle" when none)
    updater,            \* argument of the call in progress
    actionName,         \* argument of the call in progress
    localMergedConfig,  \* the configuration resolved for the call in progress
    prevState,          \* const prevState = cloneDeep(state)
    nextState,          \* let nextState = cloneDeep(state)
    stateDiff,          \* diff(prevState, nextState)
    idx,                \* loop index of the transformer / middleware loops
    stateAtCall,        \* what getState() returned right before the call
    trace,              \* the pipeline steps the call has run, in order
    calls,              \* per listener: invocations during the call in progress
    delivered,          \* per listener: the last snapshot it received during the call
    raised,             \* the error caught by the catch block
    thrown,             \* the error the call throws to its caller
    handlerCalls,       \* invocations of globalErrorHandler during the call
    handlerState,       \* the lastGoodState argument handed to globalErrorHandler
    result,             \* how the call ended: "none", "ok", "noop", "thrown"
    inlineConfig,       \* argument of the call in progress
    entry,              \* the function the caller entered: "setState" or "setStateAsync"
    wrapper,            \* the action wrapper the caller invoked, if any: key and args
    promise,            \* the promise setStateAsync / an async action wrapper returned
    held,               \* the value a caller got from getState(), or the argument a
                        \* callback was handed, and what has been written to it
    selected,           \* the last selector invocation and what it returned
    stack,              \* the calls suspended inside a callback that called setState
    hooks,              \* the state the hooks proxy reads, the last hook used, its result
    consumer,           \* a component that reads the store through a subscription hook
    localStorage,       \* window.localStorage: the items the persist engine keeps
    persist,            \* mergedConfig.persist: the persist engine, if any
    microtasks,         \* continuations of async functions, waiting for the call stack to empty
    callbacks,          \* the engine callbacks invoked since the microtasks last started to run
    api                 \* the promises persist.reHydrate() and persist.clear() returned; destroy()

vars == <<metadata, fresh, mergedConfig, validations, state, listeners, handles, subscribed,
          pc, updater, actionName, localMergedConfig, prevState, nextState,
          stateDiff, idx, stateAtCall, trace, calls, delivered, raised, thrown,
          handlerCalls, handlerState, result, inlineConfig, entry, wrapper,
          promise, held, selected, stack, hooks, consumer, localStorage, persist,
          microtasks, callbacks, api>>

(***************************************************************************)
(* Bounds of the model and constants of the program.                       *)
(***************************************************************************)
\* count is kept within -MaxBelow .. MaxCount by the guards of the calls
MaxCount == 10
MaxBelow == 1
\* how many calls can be suspended inside a callback that called setState
MaxNested == 1
\* the highest version an engine is configured with
MaxVersion == 3
\* how many continuations can wait for the call stack to empty
MaxTasks == 2
\* how many names the callers push to state.names
MaxNames == 1
\* how far the callers of a store with a persist engine count
MaxStored == 1
\* tests/setup.ts: export const validationErrorMaxValue = 10
validationErrorMaxValue == 10

Listeners == {"l1", "l2"}

(***************************************************************************)
(* Values.  A state is an object (a function from field names to values);  *)
(* cloneDeep of a value is the value: a clone differs from its original    *)
(* only in identity, and where the code shares an object between two       *)
(* references the model writes both (see MergeUpdater).                    *)
(***************************************************************************)
EmptyObject == [k \in {} |-> 0]

\* tests/setup.ts: export const initialState =
\*   { count: 0, names: [], profile: { age: 0, name: '' } }
TestsInitialState == [count |-> 0, names |-> <<>>, profile |-> [age |-> 0, name |-> ""]]

\* the initialState values a caller hands to createStore
InitialStates == {TestsInitialState, [TestsInitialState EXCEPT !.count = 1]}

NoError == [type |-> "none", seq |-> 0]
Error(type, seq) == [type |-> type, seq |-> seq]

Ok(value) == [throws |-> FALSE, value |-> value, error |-> NoError]
Throw(type) == [throws |-> TRUE, value |-> EmptyObject, error |-> Error(type, 1)]

(***************************************************************************)
(* Updates: a function over a draft, or a partial object.                  *)
(***************************************************************************)
\* state => action(state, ...args): the function's name and the args bound to it
FnWith(name, args) ==
    [kind |-> "function", name |-> name, object |-> EmptyObject, args |-> args]
Fn(name) == FnWith(name, <<>>)
Partial(object) == [kind |-> "object", name |-> "", object |-> object, args |-> <<>>]
NoUpdater == [kind |-> "none", name |-> "", object |-> EmptyObject, args |-> <<>>]

\* The body of an action or updater: the mutations it applies to its draft,
\* one list per stretch of the body that runs without an await.  A
\* synchronous body, and an async body without an await (resetAsync of the
\* test suite), is one stretch; loadAsync is
\*   async (state, n) => { await loaded; state.count = n }
Body(name) ==
    CASE name = "increment"   -> <<(<<"increment">>)>>
      [] name = "decrement"   -> <<(<<"decrement">>)>>
      [] name = "add"         -> <<(<<"add">>)>>
      [] name = "setNegative" -> <<(<<"setNegative">>)>>
      [] name = "resetAsync"  -> <<(<<"reset">>)>>
      [] name = "loadAsync"   -> <<(<<>>), (<<"set">>)>>
      [] name = "addName"     -> <<(<<"addName">>)>>
      [] name = "setName"     -> <<(<<"setName">>)>>
      [] name = "setProfile"  -> <<(<<"setProfile">>)>>
      [] name = "newProfile"  -> <<(<<"newProfile">>)>>
      [] OTHER                -> <<(<<>>)>>

\* one assignment of a body to its draft
Mutate(mutation, draft, args) ==
    CASE mutation = "increment"   -> [draft EXCEPT !.count = @ + 1]
      [] mutation = "decrement"   -> [draft EXCEPT !.count = @ - 1]
      [] mutation = "add"         -> [draft EXCEPT !.count = @ + args[1]]
      [] mutation = "setNegative" -> [draft EXCEPT !.count = -1]
      [] mutation = "reset"       -> [draft EXCEPT !.count = 0]
      [] mutation = "set"         -> [draft EXCEPT !.count = args[1]]
      [] mutation = "addName"     -> [draft EXCEPT !.names = Append(@, "a")]
      [] mutation = "setName"     -> [draft EXCEPT !.profile.name = "New Name"]
      [] mutation = "newProfile"  -> [draft EXCEPT !.profile = [name |-> "New Name"]]
      [] mutation = "setProfile"  ->
            [draft EXCEPT !.profile = [age |-> 25, name |-> "John Doe",
                                       status |-> "active"]]
      [] OTHER                    -> draft

RECURSIVE MutateAll(_, _, _)
MutateAll(mutations, draft, args) ==
    IF mutations = <<>> THEN draft
    ELSE MutateAll(Tail(mutations), Mutate(Head(mutations), draft, args), args)

\* every stretch of a body applied to the draft, in order
RECURSIVE WholeBody(_, _, _)
WholeBody(body, draft, args) ==
    IF body = <<>> THEN draft
    ELSE WholeBody(Tail(body), MutateAll(Head(body), draft, args), args)

\* what updater(draft) has done to the draft when it returns: the first
\* stretch of the body.  An async body returns its promise at its first
\* await; nothing waits for that promise, and the rest of the body runs when
\* produce has finalised and revoked the draft
ApplyUpdater(upd, draft) ==
    IF upd.name = "faulty" THEN Throw("Test Error")
    ELSE Ok(MutateAll(Head(Body(upd.name)), draft, upd.args))

\* Object.assign(object, source): every field of source is assigned to
\* object as a whole, the other fields are kept
Assign(object, source) ==
    [k \in (DOMAIN object) \cup (DOMAIN source) |->
        IF k \in DOMAIN source THEN source[k] ELSE object[k]]

\* lodash.merge on two arrays of primitives: the elements of source are
\* assigned by index, the elements of object beyond them are kept
MergeArray(object, source) ==
    [i \in 1..(IF Len(object) > Len(source) THEN Len(object) ELSE Len(source)) |->
        IF i <= Len(source) THEN source[i] ELSE object[i]]

\* lodash.merge(object, source) on states: it recurses into the fields that
\* hold an array (names) or a plain object (profile) on both sides, and
\* assigns the others
Merge(object, source) ==
    [k \in (DOMAIN object) \cup (DOMAIN source) |->
        IF k \notin DOMAIN source THEN object[k]
        ELSE IF k \notin DOMAIN object THEN source[k]
        ELSE CASE k = "names"   -> MergeArray(object[k], source[k])
               [] k = "profile" -> Assign(object[k], source[k])
               [] OTHER         -> source[k]]

\* a diff that compares by reference: two clones always differ
Diff_ByReference(lhs, rhs) == {[kind |-> "E", path |-> k] : k \in DOMAIN rhs}

\* deep-diff's diff(lhs, rhs): one record per differing path; the empty set
\* stands for its `undefined` result
Diff(lhs, rhs) ==
    { [kind |-> IF k \notin DOMAIN lhs THEN "N"
                ELSE IF k \notin DOMAIN rhs THEN "D" ELSE "E",
       path |-> k] :
      k \in { j \in (DOMAIN lhs) \cup (DOMAIN rhs) :
                 \/ j \notin DOMAIN lhs
                 \/ j \notin DOMAIN rhs
                 \/ lhs[j] # rhs[j] } }

(***************************************************************************)
(* Configuration.  A store configuration holds the fields the pipeline     *)
(* reads; produce tells whether useImmer.produce is defined.               *)
(***************************************************************************)
Config(transformers, before, after, rollback, produce) ==
    [transformers      |-> transformers,
     beforeMiddlewares |-> before,
     afterMiddlewares  |-> after,
     rollbackOnError   |-> rollback,
     logDiff           |-> TRUE,
     produce           |-> produce]

NoConfig == Config(<<>>, <<>>, <<>>, FALSE, FALSE)

\* the storeConfig of the test suite, and the same store with a user
\* transformer and a user middleware added to each chain; each with
\* rollbackOnError on and off
TestChains == <<(<<"immerTransformer">>), (<<"validation">>), (<<"logger">>)>>
UserChains == <<(<<"immerTransformer", "userTransformer">>),
                (<<"validation", "userBefore">>),
                (<<"logger", "userAfter">>)>>

StoreConfigs ==
    { Config(m[1], m[2], m[3], r, TRUE) : m \in {TestChains, UserChains}, r \in BOOLEAN }

\* an inline configuration: `has` holds the fields the caller supplied
Inline(has, config) == [has |-> has, config |-> config]
NoInline == Inline({}, NoConfig)

InlineConfigs ==
    { NoInline,
      Inline({"rollbackOnError"}, [NoConfig EXCEPT !.rollbackOnError = TRUE]),
      Inline({"rollbackOnError"}, [NoConfig EXCEPT !.rollbackOnError = FALSE]),
      Inline({"transformers"}, NoConfig),
      Inline({"useImmer", "transformers", "logDiff"},
             [NoConfig EXCEPT !.transformers = <<"immerTransformer">>]),
      Inline({"useImmer", "transformers", "logDiff"},
             [NoConfig EXCEPT !.transformers = <<"immerTransformer">>,
                              !.produce = TRUE, !.logDiff = FALSE]),
      Inline({"beforeMiddlewares", "afterMiddlewares"}, NoConfig) }

\* setState lines 94-118: localMergedConfig = cloneDeep(mergedConfig) with
\* the inline fields written over it.  rollbackOnError is guarded by its
\* truthiness, logDiff by `!== undefined`, the others by the truthiness of
\* an object or array (true whenever the field is supplied)
ResolveConfig(merged, inline) ==
    [transformers |->
        IF "transformers" \in inline.has
        THEN inline.config.transformers ELSE merged.transformers,
     beforeMiddlewares |->
        IF "beforeMiddlewares" \in inline.has
        THEN inline.config.beforeMiddlewares ELSE merged.beforeMiddlewares,
     afterMiddlewares |->
        IF "afterMiddlewares" \in inline.has
        THEN inline.config.afterMiddlewares ELSE merged.afterMiddlewares,
     rollbackOnError |->
        IF "rollbackOnError" \in inline.has /\ inline.config.rollbackOnError
        THEN inline.config.rollbackOnError ELSE merged.rollbackOnError,
     logDiff |->
        IF "logDiff" \in inline.has
        THEN inline.config.logDiff ELSE merged.logDiff,
     produce |->
        IF "useImmer" \in inline.has
        THEN inline.config.produce ELSE merged.produce]

(***************************************************************************)
(* Validations: a map from action names to rules.  A rule throws a         *)
(* ValidationError (throwValidationError) or returns.                      *)
(***************************************************************************)
\* the "max" rule off by one: > where the test suite has >=
RuleRejects_OffByOne(rule, prev, next) ==
    CASE rule = "max"         -> next.count > validationErrorMaxValue
      [] rule = "nonNegative" -> next.count < 0
      [] OTHER                -> FALSE

\* the rules of the test suite:
\*   "max":         nextState.count >= validationErrorMaxValue
\*   "nonNegative": nextState.count < 0
RuleRejects(rule, prev, next) ==
    CASE rule = "max"         -> next.count >= validationErrorMaxValue
      [] rule = "nonNegative" -> next.count < 0
      [] OTHER                -> FALSE

\* the validations of the test suite, and a store with the `_` rule only
TestValidations ==
    [k \in {"increment", "decrement", "_"} |->
        IF k = "increment" THEN "max" ELSE "nonNegative"]
WildcardValidations == [k \in {"_"} |-> "nonNegative"]
\* validations: {} of tests/persist.test.ts
NoValidations == [k \in {} |-> "nonNegative"]
ValidationSets == {TestValidations, WildcardValidations}

\* validationMiddleware.fn: validations?.[actionName]?.(prevState, nextState)
ValidationMiddleware(rules, name, prev, next) ==
    IF name \in DOMAIN rules /\ RuleRejects(rules[name], prev, next)
    THEN Throw("Validation Error")
    ELSE Ok(next)

\* an immerTransformer that hands the candidate on when produce is missing
ImmerTransformer_Skip(config, next, upd) ==
    IF config.produce THEN ApplyUpdater(upd, next) ELSE Ok(next)

\* immerTransformer.fn: produce(nextState, draft => updater(draft)), or an
\* error when config.useImmer.produce is not defined
ImmerTransformer(config, next, upd) ==
    IF config.produce
    THEN ApplyUpdater(upd, next)
    ELSE Throw("immerTransformer: produce function is not defined in config.")

\* transformers that start from prevState instead of the candidate they
\* are handed
TransformerFn_FromPrev(name, prev, next, config, upd) ==
    CASE name = "immerTransformer" -> {ImmerTransformer(config, prev, upd)}
      [] name = "userTransformer"  -> {Ok(prev), Throw("transformer error")}
      [] OTHER                     -> {Ok(prev)}

\* transformer.fn(storeName, actionName, prevState, nextState, config, updater):
\* the outcomes it can have.  A user transformer returns the candidate it
\* was handed or throws
TransformerFn(name, prev, next, config, upd) ==
    CASE name = "immerTransformer" -> {ImmerTransformer(config, next, upd)}
      [] name = "userTransformer"  -> {Ok(next), Throw("transformer error")}
      [] OTHER                     -> {Ok(next)}

\* middleware.fn(storeName, actionName, prevState, cloneDeep(nextState),
\* config, stateDiff, validations): the outcomes it can have.  The logger
\* only logs; a user middleware returns or throws
MiddlewareFn(name, rules, action, prev, next) ==
    CASE name = "validation" -> {ValidationMiddleware(rules, action, prev, next)}
      [] name = "logger"     -> {Ok(next)}
      [] name = "userBefore" -> {Ok(next), Throw("before-middleware error")}
      [] name = "userAfter"  -> {Ok(next), Throw("after-middleware error")}
      [] OTHER               -> {Ok(next)}

(***************************************************************************)
(* The calls a caller makes.                                               *)
(***************************************************************************)
Call(upd, name, inline) == [updater |-> upd, actionName |-> name, inline |-> inline]

\* createActions: actions.k(...args) is setState(state => action(state, ...args), k)
ActionCall(k) == Call(Fn(k), k, NoInline)

PartialObjects == {EmptyObject, [count |-> 0], [count |-> -1], [count |-> 5]}

\* setState(updater, actionName = '_', inlineConfig)
Calls ==
    {ActionCall(k) : k \in {"increment", "decrement"}}
    \cup {Call(Fn("faulty"), "FaultyAction", NoInline)}
    \cup {Call(Fn(f), "_", NoInline) : f \in {"setNegative", "identity"}}
    \cup {Call(Partial(o), "_", NoInline) : o \in PartialObjects}
    \cup {Call(u, "_", i) : u \in {Fn("increment"), Partial([count |-> 5])},
                            i \in InlineConfigs}

\* the guard that keeps count within the bounds of the model
WithinBounds(s, upd) ==
    /\ upd.name = "increment" => s.count < MaxCount
    /\ upd.name = "decrement" => s.count > -MaxBelow
    /\ upd.name = "add" => s.count + upd.args[1] <= MaxCount
    /\ upd.name = "addName" => Len(s.names) < MaxNames

\* createActions: the actions of the store.  increment, decrement, add and
\* resetAsync are those of the test suite; loadAsync awaits before it writes
ActionKeys == {"increment", "decrement", "add", "resetAsync", "loadAsync"}

\* isAsyncFunction(action): the action was declared async
IsAsyncFunction(k) == k \in {"resetAsync", "loadAsync"}

\* the args the callers pass to the action wrappers
ActionArgs(k) ==
    CASE k = "add"       -> {<<2>>, <<3>>}
      [] k = "loadAsync" -> {<<7>>}
      [] OTHER           -> {<<>>}

NoWrapper == [key |-> "", args |-> <<>>]
Wrapper(k, args) == [key |-> k, args |-> args]

\* a wrapper that drops the lookup key and calls setState without a name
WrapperCall_Unnamed(k, args) == Call(FnWith(k, args), "_", NoInline)

\* the call an action wrapper makes:
\*   setState((state) => action(state, ...args), key)        (line 309)
\*   setStateAsync((state) => action(state, ...args), key)   (lines 303-306)
WrapperCall(k, args) == Call(FnWith(k, args), k, NoInline)

\* the promise of setStateAsync / of an async action wrapper
NoPromise == [status |-> "none", error |-> NoError]

\* a setStateAsync that swallows the error
Settle_Resolve(outcome, error) == [status |-> "resolved", error |-> NoError]

\* setStateAsync lines 208-212: try { setState(...) } catch (error)
\* { return Promise.reject(error) }; an async function that returns resolves
Settle(outcome, error) ==
    IF outcome = "thrown"
    THEN [status |-> "rejected", error |-> error]
    ELSE [status |-> "resolved", error |-> NoError]

(***************************************************************************)
(* createStore                                                             *)
(***************************************************************************)
\* let state = cloneDeep(initialState), initialState being the import from
\* tests/setup (line 46), not metadata.initialState
CreateStoreState(meta) == TestsInitialState

NoMetadata == [initialState |-> EmptyObject]

(***************************************************************************)
(* getState and the selectors                                              *)
(***************************************************************************)
\* a copy of the top level only: the nested profile object is the original's
CloneDeep_Shallow(value) == [value |-> value, shared |-> {<<"profile">>}]

\* cloneDeep(value): an equal value that shares no object with the original.
\* shared holds the paths of the objects the two have in common
CloneDeep(value) == [value |-> value, shared |-> {}]

\* const getState = () => cloneDeep(state)
GetStateValue(current) == CloneDeep(current)

\* the object a field path is a field of: <<>> is the root object
Container(path) == SubSeq(path, 1, Len(path) - 1)

\* object[path] = x, for a path of one or two segments
WriteAt(object, path, x) ==
    IF Len(path) = 1
    THEN [object EXCEPT ![path[1]] = x]
    ELSE [object EXCEPT ![path[1]] = [@ EXCEPT ![path[2]] = x]]

\* the writes a caller makes to a value it got from getState()
HeldWrites == {<<(<<"count">>), 7>>, <<(<<"profile", "age">>), 7>>}

NoHeld == [taken |-> FALSE, first |-> EmptyObject, value |-> EmptyObject,
           shared |-> {}, again |-> FALSE, later |-> EmptyObject]

\* the values the selectors return
Bool(b) == [type |-> "boolean", b |-> b, n |-> 0]
Num(n) == [type |-> "number", b |-> FALSE, n |-> n]

\* the % of JavaScript: the remainder has the sign of the dividend
Rem(a, b) == IF a >= 0 THEN a % b ELSE 0 - ((0 - a) % b)

\* the selectors of the test suite, applied to a state and their args
Selector(k, s, args) ==
    CASE k = "isEven"        -> Bool(Rem(s.count, 2) = 0)
      [] k = "isOdd"         -> Bool(Rem(s.count, 2) # 0)
      [] k = "getCount"      -> Num(s.count)
      [] k = "isDivisibleBy" -> Bool(Rem(s.count, args[1]) = 0)
      [] k = "drain"         -> Num(s.count)
      [] OTHER               -> Num(0)

\* the selectors of the test suite, and drain, a selector that writes to the
\* state it is handed: (state) => { const n = state.count; state.count = 0; return n }
SelectorKeys == {"isEven", "isOdd", "getCount", "isDivisibleBy", "drain"}
\* the writes a selector makes to its state argument
SelectorWrites(k) == IF k = "drain" THEN {<<(<<"count">>), 0>>} ELSE {}
SelectorArgs(k) == IF k = "isDivisibleBy" THEN {<<3>>} ELSE {<<>>}

\* a wrapper that reads the state once, when the store is created
SelectorWrapper_Cached(k, args, current) == Selector(k, TestsInitialState, args)

\* createSelectors: (...args) => selector(getState(), ...args)
SelectorWrapper(k, args, current) == Selector(k, GetStateValue(current).value, args)

NoSelected == [key |-> "", args |-> <<>>, value |-> Num(0), before |-> EmptyObject]
(***************************************************************************)
(* createHooks and safeGet.  The hooks proxy works on the spelling of the  *)
(* property names (startsWith, slice, toLowerCase), so here a name is the   *)
(* sequence of its characters and a state is a tree of tagged values.       *)
(***************************************************************************)
NoFields == [k \in {} |-> 0]
JsValue(kind, n, str, b, fields) ==
    [kind |-> kind, n |-> n, s |-> str, b |-> b, fields |-> fields]
JsNumber(n) == JsValue("number", n, "", FALSE, NoFields)
JsString(str) == JsValue("string", 0, str, FALSE, NoFields)
JsBoolean(b) == JsValue("boolean", 0, "", b, NoFields)
JsNull == JsValue("null", 0, "", FALSE, NoFields)
JsUndefined == JsValue("undefined", 0, "", FALSE, NoFields)
\* an array of n items: a leaf for the hooks proxy
JsArray(n) == JsValue("array", n, "", FALSE, NoFields)
\* an object with the fields given as a set of <<name, value>> pairs
JsObject(pairs) ==
    JsValue("object", 0, "", FALSE,
            [k \in {pair[1] : pair \in pairs} |->
                (CHOOSE pair \in pairs : pair[1] = k)[2]])
\* the expression threw a TypeError (a property read on undefined, a call of
\* undefined)
JsTypeError == JsValue("TypeError", 0, "", FALSE, NoFields)

\* the truthiness of a value (the left operand of && in safeGet)
Truthy(v) ==
    CASE v.kind = "number"    -> v.n # 0
      [] v.kind = "string"    -> v.s # ""
      [] v.kind = "boolean"   -> v.b
      [] v.kind = "null"      -> FALSE
      [] v.kind = "undefined" -> FALSE
      [] OTHER                -> TRUE

\* acc[key] for a field name: undefined unless acc is an object with the field
GetField(acc, key) ==
    IF acc.kind = "object" /\ key \in DOMAIN acc.fields
    THEN acc.fields[key]
    ELSE JsUndefined

\* safeGet (lines 360-365): path.reduce((acc, key) =>
\*   (acc && acc[key] !== undefined ? acc[key] : null), obj)
RECURSIVE SafeGet(_, _)
SafeGet(obj, path) ==
    IF path = <<>> THEN obj
    ELSE SafeGet(IF Truthy(obj) /\ GetField(obj, Head(path)) # JsUndefined
                 THEN GetField(obj, Head(path))
                 ELSE JsNull,
                 Tail(path))

UpperCase == <<"A", "B", "C", "D", "E", "F", "G", "H", "I", "J", "K", "L", "M",
               "N", "O", "P", "Q", "R", "S", "T", "U", "V", "W", "X", "Y", "Z">>
LowerCase == <<"a", "b", "c", "d", "e", "f", "g", "h", "i", "j", "k", "l", "m",
               "n", "o", "p", "q", "r", "s", "t", "u", "v", "w", "x", "y", "z">>
ToLowerCase(c) ==
    IF \E i \in 1..Len(UpperCase) : UpperCase[i] = c
    THEN LowerCase[CHOOSE i \in 1..Len(UpperCase) : UpperCase[i] = c]
    ELSE c
ToUpperCase(c) ==
    IF \E i \in 1..Len(LowerCase) : LowerCase[i] = c
    THEN UpperCase[CHOOSE i \in 1..Len(LowerCase) : LowerCase[i] = c]
    ELSE c

\* prop.startsWith('use')
StartsWithUse(prop) == Len(prop) >= 3 /\ SubSeq(prop, 1, 3) = <<"u", "s", "e">>

\* prop.slice(3, 4).toLowerCase() + prop.slice(4)
HookKey(prop) ==
    IF Len(prop) >= 4
    THEN <<ToLowerCase(prop[4])>> \o SubSeq(prop, 5, Len(prop))
    ELSE <<>>

\* what a property read on the proxy of createProxy(path) gives
\* (lines 333-353): a hook function bound to a path, a nested proxy, or
\* undefined
HookFunction(path) == [kind |-> "function", path |-> path]
NestedProxy(path) == [kind |-> "proxy", path |-> path]
NoProperty == [kind |-> "undefined", path |-> <<>>]

ProxyGet(current, path, prop) ==
    IF StartsWithUse(prop)
    THEN HookFunction(path \o <<HookKey(prop)>>)
    ELSE IF SafeGet(current, path \o <<prop>>).kind = "object"
    THEN NestedProxy(path \o <<prop>>)
    ELSE NoProperty

\* store.hooks.s1.s2...sn: the chain of property reads from the root proxy.
\* A property read on a hook function gives undefined
RECURSIVE ReadChain(_, _, _)
ReadChain(current, node, props) ==
    IF props = <<>> THEN node
    ELSE IF node.kind = "proxy"
    THEN ReadChain(current, ProxyGet(current, node.path, Head(props)), Tail(props))
    ELSE NoProperty

\* store.hooks.s1...sn.useXxx(): the hook function is () =>
\* safeGet(target(), [...path, key]) with target = () => getState(); a call
\* of anything but a function throws
CallHook(current, group, hookName) ==
    LET node == ReadChain(current, NestedProxy(<<>>), group \o <<hookName>>)
    IN IF node.kind = "function" THEN SafeGet(current, node.path) ELSE JsTypeError

\* the names of the fields, spelled out
CountName == <<"c", "o", "u", "n", "t">>
NamesName == <<"n", "a", "m", "e", "s">>
ActiveName == <<"a", "c", "t", "i", "v", "e">>
ProfileName == <<"p", "r", "o", "f", "i", "l", "e">>
AgeName == <<"a", "g", "e">>
NameName == <<"n", "a", "m", "e">>
UserName == <<"u", "s", "e", "r">>
IdName == <<"I", "d">>
NickName == <<"n", "i", "c", "k">>

\* the states the hooks proxy is used on: the state of the test suite with
\* falsy and truthy leaves, with and without the optional profile, a
\* boolean field, and with and without a user object
Profiles ==
    {JsObject({<<AgeName, JsNumber(0)>>, <<NameName, JsString("")>>}),
     JsObject({<<AgeName, JsNumber(30)>>, <<NameName, JsString("John")>>})}
Users == {JsObject({<<NameName, JsString("Ann")>>, <<IdName, JsNumber(7)>>})}

HookStates ==
    { JsObject({<<CountName, JsNumber(c)>>, <<NamesName, JsArray(n)>>,
                <<ActiveName, JsBoolean(b)>>} \cup prof \cup usr) :
        c \in {0, 10}, n \in {0, 2}, b \in BOOLEAN,
        prof \in {{}} \cup {{<<ProfileName, x>>} : x \in Profiles},
        usr \in {{}} \cup {{<<UserName, x>>} : x \in Users} }

\* the dot-paths the callers ask for
HookPaths ==
    {<<CountName>>, <<NamesName>>, <<ActiveName>>, <<ProfileName>>,
     <<ProfileName, AgeName>>, <<ProfileName, NameName>>, <<UserName>>,
     <<UserName, NameName>>, <<UserName, IdName>>, <<NickName>>}

\* what the caller last did with store.hooks: called an accessor (used, with
\* its result) or read an accessor group (read, with the node it was given)
NoHooks ==
    [state |-> JsUndefined, used |-> FALSE, path |-> <<>>, result |-> JsUndefined,
     read |-> FALSE, node |-> NoProperty]

(***************************************************************************)
(* Persistence: JSON text, WebStorage over window.localStorage, and the    *)
(* DefaultPersistEngine.  One storage key is followed (options.key) with   *)
(* its version marker (`${key}_version`).                                  *)
(***************************************************************************)
\* A value handed to or read from the storage: an object, null, or the text
\* JSON.stringify gives, `depth` times over a value of kind `of`
JsonObject(object) == [kind |-> "object", depth |-> 0, of |-> "object", value |-> object]
JsonNull == [kind |-> "null", depth |-> 0, of |-> "null", value |-> EmptyObject]

\* JSON.stringify(x): the text of x; the text of a text is a longer text
Stringify(x) == [kind |-> "text", depth |-> x.depth + 1, of |-> x.of, value |-> x.value]

\* JSON.parse(x).  Its argument is converted to a string first: null reads
\* as the text "null", an object as "[object Object]", which is not JSON
JsonOk(x) == [throws |-> FALSE, value |-> x, error |-> NoError]
JsonThrow(type) == [throws |-> TRUE, value |-> JsonNull, error |-> Error(type, 1)]
Parse(x) ==
    CASE x.kind = "text" /\ x.depth = 1 ->
            JsonOk([kind |-> x.of, depth |-> 0, of |-> x.of, value |-> x.value])
      [] x.kind = "text" /\ x.depth > 1 -> JsonOk([x EXCEPT !.depth = @ - 1])
      [] x.kind = "null"                -> JsonOk(JsonNull)
      [] OTHER                          -> JsonThrow("SyntaxError")

\* the version marker: localStorage.getItem(`${key}_version`) is null or the
\* digits of a number
NoMarker == [present |-> FALSE, n |-> 0]
Marker(n) == [present |-> TRUE, n |-> n]
\* parseInt(localStorage.getItem(`${key}_version`) || '0')
StoredVersion(marker) == IF marker.present THEN marker.n ELSE 0

\* window.localStorage with nothing in it: the item under the engine's key,
\* the version marker, and the keys of the entries other stores keep
EmptyStorage == [item |-> JsonNull, version |-> NoMarker, others |-> {}]

\* WebStorage.setItem(key, value): storage.setItem(key, JSON.stringify(value))
WebStorageSetItem(storage, value) == [storage EXCEPT !.item = Stringify(value)]

\* WebStorage.getItem(key): item ? JSON.parse(item) : null, in the executor of
\* the promise it returns: a throw there rejects the promise
WebStorageGetItem(storage) ==
    IF storage.item.kind = "null" THEN JsonOk(JsonNull) ELSE Parse(storage.item)

\* The migration steps of an engine: migrateVersions[v], by version.
\*   "stamp":  (s, v) => { s.migrated = true; s.migratedVersion = v;
\*                         s.trail = (s.trail || 0) * 10 + v; return s }
\*   "throws": () => { throw new Error('migration failed') }
\*   "none":   migrateVersions[v] is undefined
StepKinds == {"stamp", "throws", "none"}

\* the field a state does not have yet reads as undefined: (s.trail || 0)
TrailOf(s) == IF "trail" \in DOMAIN s THEN s.trail ELSE 0

\* migrateVersions[v](persistedState, v) for a step that returns
Stamp(s, v) ==
    [k \in DOMAIN s \cup {"migrated", "migratedVersion", "trail"} |->
        CASE k = "migrated"        -> TRUE
          [] k = "migratedVersion" -> v
          [] k = "trail"           -> TrailOf(s) * 10 + v
          [] OTHER                 -> s[k]]

\* mergedConfig.persist: no engine, or a DefaultPersistEngine with
\* options.version, options.migrateVersions (hasSteps tells whether the
\* option is defined) and WebStorage
NoEngine == [configured |-> FALSE, version |-> 0, hasSteps |-> FALSE,
             steps |-> [v \in {} |-> "none"]]
Engine(version, hasSteps, steps) ==
    [configured |-> TRUE, version |-> version, hasSteps |-> hasSteps, steps |-> steps]

\* a test that finds an engine in every configuration
HasEngine_Always(engine) == TRUE

\* the tests `!mergedConfig.persist`, `mergedConfig.persist?.` and
\* `config.persist` of the store and the persist middleware
HasEngine(engine) == engine.configured

\* createPersistEngine('counter', 1, new WebStorage(), ...) of the test suite
TestEngine == Engine(1, FALSE, [w \in {} |-> "none"])

\* migrateVersions with a step for every version from 2 to `version`, the
\* step of version `at` being of kind `kind`
StepsWith(version, at, kind) ==
    [w \in 2..version |-> IF w = at THEN kind ELSE "stamp"]

\* the engines the callers configure: createPersistEngine(key, 1, ...) of
\* the test suite, without migrations, and for every later version an
\* engine whose steps all return, one whose last step throws and one
\* that has no step for version 2
Engines ==
    {TestEngine}
    \cup {Engine(v, TRUE, StepsWith(v, 0, "stamp")) : v \in 2..MaxVersion}
    \cup {Engine(v, TRUE, StepsWith(v, v, "throws")) : v \in 2..MaxVersion}
    \cup {Engine(v, TRUE, StepsWith(v, 2, "none")) : v \in 3..MaxVersion}

\* the continuations that wait for the call stack to empty
NoTasks == [queue |-> <<>>, draining |-> FALSE]
Task(kind, ok, version, origin, value, error) ==
    [kind |-> kind, ok |-> ok, version |-> version, origin |-> origin,
     value |-> value, error |-> error]

\* an engine callback and, for the callbacks that carry a state, the state
Callback(name, value) == [name |-> name, value |-> value]

\* the promises of the persist API, and the listeners destroy() removed
\* last: the state of the last commit for which the persist middleware ran,
\* when its write went through and the storage still holds it, else null
\* (seen: what that was when reHydrate() was called; first: reHydrate() was
\* the first operation on the store)
NoApi == [reHydrate |-> "none", clear |-> "none", error |-> NoError, destroyed |-> {},
          last |-> JsonNull, seen |-> JsonNull, first |-> FALSE]

\* persistState(state) up to its await (tsup.config.ts lines 121-126):
\* storage.setItem(key, state) runs in the executor of the promise
\* WebStorage returns; `ok` tells whether the write went through
PersistStateWrite(storage, value, ok) ==
    IF ok THEN WebStorageSetItem(storage, value) ELSE storage

\* the continuation of persistState that waits behind the write
PersistStateTask(ok, engine, origin, value) ==
    Task("persistState", ok, engine.version, origin, value,
         IF ok THEN NoError ELSE Error("storage write failed", 1))

\* a persist middleware whose failure is thrown into the pipeline
PersistMiddleware_Awaited(engine, diff, next, storage, ok) ==
    IF diff # {} /\ HasEngine(engine)
    THEN [out |-> IF ok THEN Ok(next) ELSE Throw("storage write failed"),
          storage |-> PersistStateWrite(storage, Stringify(JsonObject(next)), ok),
          tasks |-> <<PersistStateTask(ok, engine, "middleware",
                                       Stringify(JsonObject(next)))>>]
    ELSE [out |-> Ok(next), storage |-> storage, tasks |-> <<>>]

\* persistMiddleware.fn (devTools.ts lines 46-73): if (diff && config.persist)
\* config.persist.persistState(JSON.stringify(nextState)).then(...).catch(...).
\* The promise is not awaited and not returned: the middleware returns
PersistMiddleware(engine, diff, next, storage, ok) ==
    IF diff # {} /\ HasEngine(engine)
    THEN [out |-> Ok(next),
          storage |-> PersistStateWrite(storage, Stringify(JsonObject(next)), ok),
          tasks |-> <<PersistStateTask(ok, engine, "middleware",
                                       Stringify(JsonObject(next)))>>]
    ELSE [out |-> Ok(next), storage |-> storage, tasks |-> <<>>]

\* what an after-middleware does outside the pipeline: the storage it
\* leaves and the continuations it queues
NoEffect(next, storage) == [out |-> Ok(next), storage |-> storage, tasks |-> <<>>]

\* one migration step applied to the persisted state.  The "stamp" step
\* writes to its argument, which throws a TypeError when that is null
MigrationStep(kind, x, v) ==
    CASE kind = "none"   -> JsonOk(x)
      [] kind = "throws" -> JsonThrow("migration failed")
      [] kind = "stamp"  -> IF x.kind = "object"
                            THEN JsonOk(JsonObject(Stamp(x.value, v)))
                            ELSE JsonThrow("TypeError")
      [] OTHER           -> JsonOk(x)

\* a loop that runs the steps from the target version down
RECURSIVE MigrationLoop_Descending(_, _, _, _)
MigrationLoop_Descending(steps, x, i, last) ==
    IF i > last THEN JsonOk(x)
    ELSE LET out == IF last \in DOMAIN steps
                    THEN MigrationStep(steps[last], x, last)
                    ELSE JsonOk(x)
         IN IF out.throws THEN out
            ELSE MigrationLoop_Descending(steps, out.value, i, last - 1)

\* migrate lines 94-100: for (let i = storedVersion + 1; i <= currentVersion;
\* i++) if (migrateVersions[i] !== undefined) persistedState =
\* migrateVersions[i](persistedState, i)
RECURSIVE MigrationLoop(_, _, _, _)
MigrationLoop(steps, x, i, last) ==
    IF i > last THEN JsonOk(x)
    ELSE LET out == IF i \in DOMAIN steps
                    THEN MigrationStep(steps[i], x, i)
                    ELSE JsonOk(x)
         IN IF out.throws THEN out
            ELSE MigrationLoop(steps, out.value, i + 1, last)

\* what migrate() has done when its promise settles
Migrated(outcome, storage, called, tasks) ==
    [outcome |-> outcome, storage |-> storage, callbacks |-> called, tasks |-> tasks]

\* a migrate that writes the version marker before it runs the steps
Migrate_MarkerFirst(engine, read, storage, ok) ==
    LET parsed == IF read.throws THEN read ELSE Parse(read.value)
        stored == StoredVersion(storage.version)
        out == MigrationLoop(engine.steps, parsed.value, stored + 1, engine.version)
        marked == [storage EXCEPT !.version = Marker(engine.version)]
    IN IF parsed.throws THEN Migrated(parsed, storage, <<>>, <<>>)
       ELSE IF ~engine.hasSteps \/ stored >= engine.version
       THEN Migrated(parsed, storage, <<>>, <<>>)
       ELSE IF out.throws
       THEN Migrated(out, marked, <<Callback("onMigrationFailure", JsonNull)>>, <<>>)
       ELSE Migrated(out, PersistStateWrite(marked, out.value, ok),
                     <<Callback("onMigrationSuccess", out.value)>>,
                     <<PersistStateTask(ok, engine, "migrate", out.value)>>)

\* DefaultPersistEngine.migrate (tsup.config.ts lines 73-116) from the point
\* where getHydratedState() has settled with `read`: JSON.parse, the early
\* return without migrateVersions, the version test, the loop, the marker,
\* persistState (not awaited) and the callbacks.  A rejected read, a parse
\* error and a throwing step reject the promise of migrate
Migrate(engine, read, storage, ok) ==
    LET parsed == IF read.throws THEN read ELSE Parse(read.value)
        stored == StoredVersion(storage.version)
        out == MigrationLoop(engine.steps, parsed.value, stored + 1, engine.version)
        marked == [storage EXCEPT !.version = Marker(engine.version)]
    IN IF parsed.throws THEN Migrated(parsed, storage, <<>>, <<>>)
       ELSE IF ~engine.hasSteps \/ stored >= engine.version
       THEN Migrated(parsed, storage, <<>>, <<>>)
       ELSE IF out.throws
       THEN Migrated(out, storage, <<Callback("onMigrationFailure", JsonNull)>>, <<>>)
       ELSE Migrated(out, PersistStateWrite(marked, out.value, ok),
                     <<Callback("onMigrationSuccess", out.value)>>,
                     <<PersistStateTask(ok, engine, "migrate", out.value)>>)

\* the continuation of reHydrate that waits behind migrate()
ReHydrateTask(outcome) ==
    Task("reHydrate", ~outcome.throws, 0, "reHydrate", outcome.value, outcome.error)

\* the configuration of tests/persist.test.ts: the persist middleware is
\* the last of the after-middlewares
PersistChains == <<(<<"immerTransformer">>), (<<"validation">>), (<<"logger", "persist">>)>>

\* a subscription hook's consumer that is not mounted
NoConsumer == [mounted |-> FALSE, path |-> <<>>, value |-> EmptyObject,
               propagated |-> FALSE]

NoCalls == [l \in Listeners |-> 0]
NoSnapshot == [delivered |-> FALSE, snapshot |-> EmptyObject]
Snapshot(s) == [delivered |-> TRUE, snapshot |-> s]
NoDelivered == [l \in Listeners |-> NoSnapshot]

\* the locals of setState, the listeners and what the callers hold, when
\* createStore has returned
InitLocals ==
    /\ fresh = TRUE
    /\ listeners = <<>>
    /\ handles = {}
    /\ subscribed = {}
    /\ pc = "idle"
    /\ updater = NoUpdater
    /\ actionName = ""
    /\ localMergedConfig = NoConfig
    /\ prevState = EmptyObject
    /\ nextState = EmptyObject
    /\ stateDiff = {}
    /\ idx = 0
    /\ stateAtCall = EmptyObject
    /\ trace = <<>>
    /\ calls = NoCalls
    /\ delivered = NoDelivered
    /\ raised = NoError
    /\ thrown = NoError
    /\ handlerCalls = 0
    /\ handlerState = EmptyObject
    /\ result = "none"
    /\ inlineConfig = NoInline
    /\ entry = ""
    /\ wrapper = NoWrapper
    /\ promise = NoPromise
    /\ held = NoHeld
    /\ selected = NoSelected
    /\ stack = <<>>
    /\ microtasks = NoTasks
    /\ callbacks = <<>>
    /\ api = NoApi

\* the store createStore returns: no persist engine, nothing stored, no
\* component mounted
InitStore ==
    /\ metadata \in [initialState : InitialStates]
    /\ mergedConfig \in StoreConfigs
    /\ validations \in ValidationSets
    /\ state = CreateStoreState(metadata)
    /\ InitLocals
    /\ consumer = NoConsumer
    /\ localStorage = EmptyStorage
    /\ persist = NoEngine

Init ==
    /\ InitStore
    /\ hooks = NoHooks

storeVars == <<mergedConfig, validations>>
callArgs == <<updater, actionName, inlineConfig, entry, wrapper, localMergedConfig,
              prevState, stateAtCall>>
\* what the callers hold between calls, and the suspended calls
outerVars == <<promise, held, selected, stack, hooks, consumer, localStorage, persist,
               microtasks, callbacks, api>>
\* the persist engine, its storage and the promises in flight
persistVars == <<localStorage, persist, microtasks, callbacks, api>>
\* what lies outside the store object proper
extVars == <<consumer, persistVars>>
errorVars == <<raised, thrown, handlerCalls, handlerState>>

(***************************************************************************)
(* subscribe / unsubscribe / notify                                        *)
(***************************************************************************)
Has(set, l) == \E i \in 1..Len(set) : set[i] = l

\* listeners.add(listener): a Set keeps one entry per listener
Add(set, l) == IF Has(set, l) THEN set ELSE Append(set, l)

\* a delete that removes nothing
Delete_Keep(set, l) == set

\* listeners.delete(listener)
Delete(set, l) == SelectSeq(set, LAMBDA x : x # l)

\* const subscribe = listener => { listeners.add(listener); return () => ... }
Subscribe(l) ==
    /\ pc = "idle"
    /\ listeners' = Add(listeners, l)
    /\ handles' = handles \cup {l}
    /\ subscribed' = subscribed \cup {l}
    /\ api' = [api EXCEPT !.destroyed = @ \ {l}]
    /\ UNCHANGED <<promise, held, selected, stack, hooks, consumer, localStorage,
                   persist, microtasks, callbacks, metadata, fresh, storeVars, state, pc,
                   callArgs, nextState, stateDiff, idx, trace, calls, delivered,
                   errorVars, result>>

\* const unsubscribe = listener => { listeners.delete(listener) }
Unsubscribe(l) ==
    /\ pc = "idle"
    /\ listeners' = Delete(listeners, l)
    /\ subscribed' = subscribed \ {l}
    /\ UNCHANGED <<outerVars, metadata, fresh, storeVars, state, handles, pc, callArgs,
                   nextState, stateDiff, idx, trace, calls, delivered, errorVars,
                   result>>

\* the function subscribe(listener) returned: () => listeners.delete(listener)
UnsubscribeFn(l) ==
    /\ pc = "idle"
    /\ l \in handles
    /\ listeners' = Delete(listeners, l)
    /\ subscribed' = subscribed \ {l}
    /\ UNCHANGED <<outerVars, metadata, fresh, storeVars, state, handles, pc, callArgs,
                   nextState, stateDiff, idx, trace, calls, delivered, errorVars,
                   result>>

\* notify(): listeners.forEach(listener => listener(snapshot)).  k = 0: every
\* listener returns; k > 0: the k-th listener throws and the rest are not
\* invoked.  The listeners notify() invokes:
Invoked(set, k) == {set[i] : i \in 1..(IF k = 0 THEN Len(set) ELSE k)}

NotifyCalls(set, k, count) ==
    [l \in Listeners |-> IF l \in Invoked(set, k) THEN count[l] + 1 ELSE count[l]]

\* const snapshot = cloneDeep(state), handed to every listener invoked
NotifyDelivered(set, k, current, last) ==
    [l \in Listeners |-> IF l \in Invoked(set, k) THEN Snapshot(current) ELSE last[l]]

(***************************************************************************)
(* The subscription hook (useReRenderStore): a component keeps the value   *)
(* at a path in a useState cell and subscribes a listener that reads the   *)
(* path again and hands the value to the cell's setter.                    *)
(***************************************************************************)
\* the listener useReRenderStore subscribes
HookListener == "hook"

\* the paths the components of the test suite read, and the whole profile
RenderPaths == {<<"count">>, <<"names">>, <<"profile">>, <<"profile", "age">>,
                <<"profile", "name">>}

\* typeof the value ICounterState keeps at a path (tests/setup.ts lines 3-16)
PathKind(path) ==
    CASE path = <<"names">>   -> "array"
      [] path = <<"profile">> -> "object"
      [] OTHER                -> "primitive"

\* safeGet(value, path) on a state that has the path
StateAt(current, path) ==
    IF Len(path) = 1 THEN current[path[1]] ELSE current[path[1]][path[2]]

\* getSnapshot: () => safeGet(this.getState(), hookPath).  The value is
\* read from a clone of the state: an object or array it returns is the
\* store's own only where the clone shares it
GetSnapshot(current, path) ==
    [value |-> StateAt(GetStateValue(current).value, path),
     shared |-> path \in GetStateValue(current).shared]

\* Object.is(newValue, oldValue), by which the setter of a useState cell
\* decides whether to render again: primitives by value, objects and arrays
\* by identity.  Two reads give the same object only if neither is a copy
ObjectIs(path, snapshot, old) ==
    IF PathKind(path) = "primitive" THEN snapshot.value = old ELSE snapshot.shared

\* the listener of useReRenderStore (indexedDB.ts lines 187-190):
\* const newValue = getSnapshot(); setState(newValue)
OnChange(component, current) ==
    IF ~component.mounted THEN component
    ELSE [component EXCEPT
            !.value = GetSnapshot(current, component.path).value,
            !.propagated = @ \/ ~ObjectIs(component.path,
                                          GetSnapshot(current, component.path),
                                          component.value)]

\* the component's first render and its effect: useState(getSnapshot), then
\* subscribe(listener)
Mount(path) ==
    /\ pc = "idle"
    /\ ~consumer.mounted
    /\ consumer' = [mounted |-> TRUE, path |-> path,
                    value |-> GetSnapshot(state, path).value, propagated |-> FALSE]
    /\ listeners' = Add(listeners, HookListener)
    /\ UNCHANGED <<promise, held, selected, stack, hooks, persistVars, metadata, fresh,
                   storeVars, state, handles, subscribed, pc, callArgs, nextState,
                   stateDiff, idx, trace, calls, delivered, errorVars, result>>

\* the cleanup of the effect: the unsubscribe function subscribe returned
Unmount ==
    /\ pc = "idle"
    /\ consumer.mounted
    /\ consumer' = NoConsumer
    /\ listeners' = Delete(listeners, HookListener)
    /\ UNCHANGED <<promise, held, selected, stack, hooks, persistVars, metadata, fresh,
                   storeVars, state, handles, subscribed, pc, callArgs, nextState,
                   stateDiff, idx, trace, calls, delivered, errorVars, result>>

(***************************************************************************)
(* setState                                                                *)
(***************************************************************************)
\* a try block that commits before the before-middlewares have run
StepAfter_CommitFirst(step) ==
    CASE step = "step1"  -> "diff"
      [] step = "diff"   -> "commit"
      [] step = "commit" -> "before"
      [] step = "before" -> "after"
      [] step = "after"  -> "notify"
      [] OTHER           -> "returned"

\* the order of the steps of the try block (lines 123-190)
StepAfter(step) ==
    CASE step = "step1"  -> "diff"
      [] step = "diff"   -> "before"
      [] step = "before" -> "commit"
      [] step = "commit" -> "after"
      [] step = "after"  -> "notify"
      [] OTHER           -> "returned"

\* a for-of loop over an empty list runs no step
SkipEmpty(step, config) ==
    IF \/ step = "before" /\ config.beforeMiddlewares = <<>>
       \/ step = "after" /\ config.afterMiddlewares = <<>>
    THEN StepAfter(step) ELSE step

Enter(step, config) == SkipEmpty(SkipEmpty(StepAfter(step), config), config)

\* lines 88-121: the call starts; the configuration is resolved and the
\* state is cloned.  The caller entered through `via` (setState, or
\* setStateAsync, which calls setState at line 209), by itself or through
\* the action wrapper `by`
Begin(c, via, by) ==
    /\ pc = "idle"
    /\ WithinBounds(state, c.updater)
    /\ fresh' = FALSE
    /\ metadata' = NoMetadata
    /\ updater' = c.updater
    /\ actionName' = c.actionName
    /\ inlineConfig' = c.inline
    /\ entry' = via
    /\ wrapper' = by
    /\ localMergedConfig' = ResolveConfig(mergedConfig, c.inline)
    /\ prevState' = state
    /\ nextState' = state
    /\ stateAtCall' = state
    /\ pc' = "step1"
    /\ idx' = 1
    /\ held' = NoHeld
    /\ selected' = NoSelected
    /\ UNCHANGED <<storeVars, state, listeners, handles, subscribed, stateDiff, trace,
                   calls, delivered, errorVars, result, promise, stack, hooks,
                   extVars>>

\* store.setState(updater, actionName, inlineConfig)
SetState(c) == Begin(c, "setState", NoWrapper)

\* store.setStateAsync(updater, actionName, inlineConfig)
SetStateAsync(c) == Begin(c, "setStateAsync", NoWrapper)

\* store.actions.k(...args): the wrapper createActions returns for key k
ActionWrapper(k, args) ==
    Begin(WrapperCall(k, args),
          IF IsAsyncFunction(k) THEN "setStateAsync" ELSE "setState",
          Wrapper(k, args))

\* store.getState(), and a later store.getState() by the same caller.  (The
\* model follows one value read from the store at a time: the state a caller
\* holds, or the result of a selector)
GetState ==
    /\ pc = "idle"
    /\ selected' = NoSelected
    /\ held' = IF ~held.taken
               THEN [taken |-> TRUE,
                     first |-> GetStateValue(state).value,
                     value |-> GetStateValue(state).value,
                     shared |-> GetStateValue(state).shared,
                     again |-> FALSE, later |-> EmptyObject]
               ELSE [held EXCEPT !.again = TRUE, !.later = GetStateValue(state).value]
    /\ UNCHANGED <<metadata, fresh, storeVars, state, listeners, handles, subscribed,
                   pc, callArgs, nextState, stateDiff, idx, trace, calls, delivered,
                   errorVars, result, promise, stack, hooks,
                   extVars>>

\* the caller writes to the value getState() returned; the write reaches the
\* store's state when the object written to is one the two share
MutateHeld(path, x) ==
    /\ pc = "idle"
    /\ held.taken
    /\ ~held.again
    /\ held' = [held EXCEPT !.value = WriteAt(@, path, x)]
    /\ state' = IF Container(path) \in held.shared THEN WriteAt(state, path, x) ELSE state
    /\ UNCHANGED <<metadata, fresh, storeVars, listeners, handles, subscribed,
                   pc, callArgs, nextState, stateDiff, idx, trace, calls, delivered,
                   errorVars, result, promise, selected, stack, hooks,
                   extVars>>

\* store.selectors.k(...args).  What the selector writes to its argument
\* reaches the store's state when the object written to is one the argument
\* shares with it
Select(k, args) ==
    /\ pc = "idle"
    /\ selected' = [key |-> k, args |-> args, value |-> SelectorWrapper(k, args, state),
                    before |-> state]
    /\ held' = NoHeld
    /\ state' = IF \E w \in SelectorWrites(k) :
                      Container(w[1]) \in GetStateValue(state).shared
                THEN CHOOSE written \in {WriteAt(state, w[1], w[2]) : w \in SelectorWrites(k)} : TRUE
                ELSE state
    /\ UNCHANGED <<metadata, fresh, storeVars, listeners, handles, subscribed,
                   pc, callArgs, nextState, stateDiff, idx, trace, calls, delivered,
                   errorVars, result, promise, stack, hooks,
                   extVars>>

\* a step 1 that takes a function it cannot interpret for an empty update
Step1Branch_SkipFunction(upd, config) ==
    IF upd.kind = "function" /\ Len(config.transformers) > 0
    THEN "transformers"
    ELSE "merge"

\* lines 125-147: the branch step 1 takes
Step1Branch(upd, config) ==
    IF upd.kind = "function" /\ Len(config.transformers) > 0
    THEN "transformers"
    ELSE IF upd.kind = "function" THEN "throw" ELSE "merge"

\* lines 125-138: one turn of the transformer loop
RunTransformer ==
    /\ pc = "step1"
    /\ Step1Branch(updater, localMergedConfig) = "transformers"
    /\ idx <= Len(localMergedConfig.transformers)
    /\ trace' = Append(trace, <<"transformer", idx>>)
    /\ \E out \in TransformerFn(localMergedConfig.transformers[idx], prevState,
                                 nextState, localMergedConfig, updater) :
          IF out.throws
          THEN /\ raised' = out.error
               /\ pc' = "catch"
               /\ UNCHANGED <<nextState, idx>>
          ELSE /\ nextState' = out.value
               /\ IF idx = Len(localMergedConfig.transformers)
                  THEN pc' = Enter("step1", localMergedConfig) /\ idx' = 1
                  ELSE pc' = pc /\ idx' = idx + 1
               /\ UNCHANGED raised
    /\ UNCHANGED <<outerVars, metadata, fresh, storeVars, state, listeners, handles, subscribed, callArgs,
                   stateDiff, calls, delivered, thrown, handlerCalls,
                   handlerState, result>>

\* lines 140-143: a function update and no transformer
UpdaterNeedsTransformer ==
    /\ pc = "step1"
    /\ Step1Branch(updater, localMergedConfig) = "throw"
    /\ raised' = Error("You must use a transformer", 1)
    /\ pc' = "catch"
    /\ UNCHANGED <<outerVars, metadata, fresh, storeVars, state, listeners, handles, subscribed, callArgs,
                   nextState, stateDiff, idx, trace, calls, delivered, thrown,
                   handlerCalls, handlerState, result>>

\* line 145: nextState = merge(state, updater).  lodash.merge writes into its
\* first argument and returns it: the object `state` refers to is changed,
\* and nextState refers to the same object
MergeUpdater ==
    /\ pc = "step1"
    /\ Step1Branch(updater, localMergedConfig) = "merge"
    /\ state' = Merge(state, updater.object)
    /\ nextState' = Merge(state, updater.object)
    /\ pc' = Enter("step1", localMergedConfig)
    /\ idx' = 1
    /\ trace' = Append(trace, <<"merge", 0>>)
    /\ UNCHANGED <<outerVars, metadata, fresh, storeVars, listeners, handles, subscribed, callArgs,
                   stateDiff, calls, delivered, errorVars, result>>

\* lines 149-157: the diff, and the early return when there is none
CheckDiff ==
    /\ pc = "diff"
    /\ trace' = Append(trace, <<"diff", 0>>)
    /\ IF Diff(prevState, nextState) = {}
       THEN /\ result' = "noop"
            /\ pc' = "returned"
            /\ UNCHANGED <<stateDiff, idx>>
       ELSE /\ stateDiff' = Diff(prevState, nextState)
            /\ pc' = Enter("diff", localMergedConfig)
            /\ idx' = 1
            /\ UNCHANGED result
    /\ UNCHANGED <<outerVars, metadata, fresh, storeVars, state, listeners, handles, subscribed, callArgs,
                   nextState, calls, delivered, errorVars>>

\* lines 160-171: one turn of the before-middleware loop
RunBeforeMiddleware ==
    /\ pc = "before"
    /\ idx <= Len(localMergedConfig.beforeMiddlewares)
    /\ trace' = Append(trace, <<"before", idx>>)
    /\ \E out \in MiddlewareFn(localMergedConfig.beforeMiddlewares[idx], validations,
                                actionName, prevState, nextState) :
          IF out.throws
          THEN /\ raised' = out.error
               /\ pc' = "catch"
               /\ UNCHANGED idx
          ELSE /\ IF idx = Len(localMergedConfig.beforeMiddlewares)
                  THEN pc' = Enter("before", localMergedConfig) /\ idx' = 1
                  ELSE pc' = pc /\ idx' = idx + 1
               /\ UNCHANGED raised
    /\ UNCHANGED <<outerVars, metadata, fresh, storeVars, state, listeners, handles, subscribed, callArgs,
                   nextState, stateDiff, calls, delivered, thrown, handlerCalls,
                   handlerState, result>>

\* line 174: state = nextState
Commit ==
    /\ pc = "commit"
    /\ state' = nextState
    /\ trace' = Append(trace, <<"commit", 0>>)
    /\ pc' = Enter("commit", localMergedConfig)
    /\ idx' = 1
    /\ UNCHANGED <<outerVars, metadata, fresh, storeVars, listeners, handles, subscribed, callArgs,
                   nextState, stateDiff, calls, delivered, errorVars, result>>

\* what the after-middleware `name` does besides returning or throwing: the
\* persist middleware starts a storage write, which goes through or fails
AfterEffects(name, engine, diff, next, storage) ==
    IF name = "persist"
    THEN {PersistMiddleware(engine, diff, next, storage, ok) : ok \in BOOLEAN}
    ELSE {NoEffect(next, storage)}

\* the state the storage holds after the middleware's write, if one was
\* started: the state written, or unknown (null) when the write failed
Written(effect, last) ==
    IF effect.tasks = <<>> THEN last
    ELSE IF effect.tasks[1].ok THEN Parse(effect.tasks[1].value).value
    ELSE JsonNull

\* lines 177-187: one turn of the after-middleware loop
RunAfterMiddleware ==
    /\ pc = "after"
    /\ idx <= Len(localMergedConfig.afterMiddlewares)
    /\ trace' = Append(trace, <<"after", idx>>)
    /\ \E effect \in AfterEffects(localMergedConfig.afterMiddlewares[idx], persist,
                                   stateDiff, nextState, localStorage) :
          /\ localStorage' = effect.storage
          /\ microtasks' = [microtasks EXCEPT !.queue = @ \o effect.tasks]
          /\ api' = [api EXCEPT !.last = Written(effect, @)]
          /\ \E out \in IF localMergedConfig.afterMiddlewares[idx] = "persist"
                         THEN {effect.out}
                         ELSE MiddlewareFn(localMergedConfig.afterMiddlewares[idx],
                                           validations, actionName, prevState,
                                           nextState) :
                IF out.throws
                THEN /\ raised' = out.error
                     /\ pc' = "catch"
                     /\ UNCHANGED idx
                ELSE /\ IF idx = Len(localMergedConfig.afterMiddlewares)
                        THEN pc' = Enter("after", localMergedConfig) /\ idx' = 1
                        ELSE pc' = pc /\ idx' = idx + 1
                     /\ UNCHANGED raised
    /\ UNCHANGED <<promise, held, selected, stack, hooks, consumer, persist, callbacks,
                   metadata, fresh, storeVars, state, listeners, handles, subscribed, callArgs,
                   nextState, stateDiff, calls, delivered, thrown, handlerCalls,
                   handlerState, result>>

\* line 190: notify() at the end of the try block
Notify ==
    /\ pc = "notify"
    /\ trace' = Append(trace, <<"notify", 0>>)
    /\ \E k \in 0..Len(listeners) :
          /\ IF k = 0 THEN TRUE ELSE listeners[k] # HookListener
          /\ calls' = NotifyCalls(listeners, k, calls)
          /\ delivered' = NotifyDelivered(listeners, k, state, delivered)
          /\ consumer' = IF HookListener \in Invoked(listeners, k)
                         THEN OnChange(consumer, state) ELSE consumer
          /\ IF k = 0
             THEN /\ result' = "ok"
                  /\ pc' = "returned"
                  /\ UNCHANGED raised
             ELSE /\ raised' = Error("listener error", 1)
                  /\ pc' = "catch"
                  /\ UNCHANGED result
    /\ UNCHANGED <<promise, held, selected, stack, hooks, persistVars, metadata, fresh,
                   storeVars, state, listeners, handles, subscribed, callArgs,
                   nextState, stateDiff, idx, thrown, handlerCalls, handlerState>>

\* a catch block that never restores the state
RolledBack_Keep(config, prev, current) == current

\* lines 192-193: if (localMergedConfig.rollbackOnError) state = prevState
RolledBack(config, prev, current) ==
    IF config.rollbackOnError THEN prev ELSE current

\* lines 191-199: the catch block.  With rollbackOnError the state is
\* restored and notify() runs; a listener that throws there (k > 0) ends the
\* block before globalErrorHandler is reached.  Otherwise the handler is
\* invoked with `state` and the caught error is thrown again
CatchError ==
    /\ pc = "catch"
    /\ state' = RolledBack(localMergedConfig, prevState, state)
    /\ \E k \in 0..(IF localMergedConfig.rollbackOnError THEN Len(listeners) ELSE 0) :
          /\ IF k = 0 THEN TRUE ELSE listeners[k] # HookListener
          /\ IF localMergedConfig.rollbackOnError
             THEN /\ calls' = NotifyCalls(listeners, k, calls)
                  /\ delivered' = NotifyDelivered(listeners, k, state', delivered)
                  /\ consumer' = IF HookListener \in Invoked(listeners, k)
                                 THEN OnChange(consumer, state') ELSE consumer
             ELSE UNCHANGED <<calls, delivered, consumer>>
          /\ IF k = 0
             THEN /\ handlerCalls' = handlerCalls + 1
                  /\ handlerState' = state'
                  /\ thrown' = raised
             ELSE /\ thrown' = Error("listener error", 2)
                  /\ UNCHANGED <<handlerCalls, handlerState>>
    /\ result' = "thrown"
    /\ pc' = "returned"
    /\ api' = [api EXCEPT !.last = IF localMergedConfig.rollbackOnError
                                       /\ @ = JsonObject(nextState)
                                    THEN JsonNull ELSE @]
    /\ UNCHANGED <<promise, held, selected, stack, hooks, localStorage, persist,
                   microtasks, callbacks, metadata, fresh,
                   storeVars, listeners, handles, subscribed, callArgs,
                   nextState, stateDiff, idx, trace, raised>>

\* what persistEngine.migrate() resolves to: nothing, or a persisted state
NothingPersisted == [found |-> FALSE, value |-> EmptyObject]
Persisted(value) == [found |-> TRUE, value |-> value]
PersistedStates == {NothingPersisted, Persisted([count |-> 3])}

\* persist.reHydrate (lines 233-249): when migrate() has resolved to a
\* persisted state, state = merge(state, persistedState); nothing happens
\* without a persist engine or a persisted state.  No listener is notified
ReHydrate(persisted) ==
    /\ pc = "idle"
    /\ state' = IF persisted.found THEN Merge(state, persisted.value) ELSE state
    /\ fresh' = FALSE
    /\ metadata' = NoMetadata
    /\ held' = NoHeld
    /\ selected' = NoSelected
    /\ UNCHANGED <<storeVars, listeners, handles, subscribed, pc, callArgs, nextState,
                   stateDiff, idx, trace, calls, delivered, errorVars, result,
                   promise, stack, hooks,
                   extVars>>

(***************************************************************************)
(* The persist API, destroy() and the continuations of the async functions *)
(* of the engine.  WebStorage settles its promises in their executors, so  *)
(* every continuation is a microtask: it runs when the call stack is empty, *)
(* and once the first has run the queue is emptied before any caller runs. *)
(***************************************************************************)
\* the caller's code runs: no call is in progress and no microtask is due
CallerRuns == pc = "idle" /\ ~microtasks.draining

\* persist.reHydrate() up to its first await (lines 233-239): nothing
\* without an engine; with one, migrate() starts and getHydratedState()
\* reads the item in the executor of WebStorage.getItem
ReHydrateCall ==
    /\ CallerRuns
    /\ api.reHydrate # "pending"
    /\ Len(microtasks.queue) < MaxTasks
    /\ IF ~HasEngine(persist)
       THEN /\ api' = [api EXCEPT !.reHydrate = "resolved", !.error = NoError]
            /\ UNCHANGED microtasks
       ELSE /\ api' = [api EXCEPT !.reHydrate = "pending", !.error = NoError,
                                  !.seen = api.last, !.first = fresh]
            /\ microtasks' =
                 [microtasks EXCEPT !.queue =
                    Append(@, Task("migrate", ~WebStorageGetItem(localStorage).throws, 0,
                                   "reHydrate", WebStorageGetItem(localStorage).value,
                                   WebStorageGetItem(localStorage).error))]
    /\ fresh' = FALSE
    /\ metadata' = NoMetadata
    /\ held' = NoHeld
    /\ selected' = NoSelected
    /\ UNCHANGED <<storeVars, state, listeners, handles, subscribed, pc, callArgs,
                   nextState, stateDiff, idx, trace, calls, delivered, errorVars, result,
                   promise, stack, hooks, consumer, localStorage, persist, callbacks>>

\* clearPersistedState() up to its first await (tsup.config.ts lines
\* 139-141): storage.purge() is WebStorage.clear(), which empties the storage
\* in its executor; `ok` tells whether that went through
Purge(storage, ok) == IF ok THEN EmptyStorage ELSE storage

\* persist.clear (line 253): async () => mergedConfig.persist?.clearPersistedState()
ClearStarted(ok, removed) ==
    IF ~HasEngine(persist)
    THEN /\ api' = [api EXCEPT !.clear = "resolved", !.error = NoError,
                               !.destroyed = removed]
         /\ UNCHANGED <<localStorage, microtasks>>
    ELSE /\ api' = [api EXCEPT !.clear = "pending", !.error = NoError,
                               !.destroyed = removed,
                               !.last = IF ok THEN JsonNull ELSE @]
         /\ localStorage' = Purge(localStorage, ok)
         /\ microtasks' =
              [microtasks EXCEPT !.queue =
                 Append(@, Task("clearRemove", ok, 0, "clear", JsonNull,
                                IF ok THEN NoError ELSE Error("storage clear failed", 1)))]

\* persist.clear()
ClearCall ==
    /\ CallerRuns
    /\ api.clear # "pending"
    /\ Len(microtasks.queue) < MaxTasks
    /\ \E ok \in BOOLEAN : ClearStarted(ok, api.destroyed)
    /\ UNCHANGED <<metadata, fresh, storeVars, state, listeners, handles, subscribed, pc,
                   callArgs, nextState, stateDiff, idx, trace, calls, delivered,
                   errorVars, result, promise, held, selected, stack, hooks, consumer,
                   persist, callbacks>>

\* a clear that leaves the Set as it is
ClearListeners_Keep(set) == set

\* listeners.clear()
ClearListeners(set) == <<>>

\* destroy (lines 271-274): listeners.clear(); persistAPI.clear().  The
\* promise of clear() is dropped
Destroy ==
    /\ CallerRuns
    /\ api.clear # "pending"
    /\ Len(microtasks.queue) < MaxTasks
    /\ listeners' = ClearListeners(listeners)
    /\ subscribed' = {}
    /\ \E ok \in BOOLEAN :
          ClearStarted(ok, api.destroyed \cup {l \in Listeners : Has(listeners, l)})
    /\ UNCHANGED <<metadata, fresh, storeVars, state, handles, pc, callArgs, nextState,
                   stateDiff, idx, trace, calls, delivered, errorVars, result, promise,
                   held, selected, stack, hooks, consumer, persist, callbacks>>

\* createStore(metadata) once more, with the engine handed in
\* storeConfig.persist: a new store over the same storage.  (The model
\* follows one store; the old one is dropped when its persist API calls have
\* settled)
CreateStore(engine) ==
    /\ CallerRuns
    /\ api.reHydrate # "pending"
    /\ api.clear # "pending"
    /\ metadata' = [initialState |-> TestsInitialState]
    /\ fresh' = TRUE
    /\ state' = CreateStoreState(metadata')
    /\ listeners' = <<>>
    /\ handles' = {}
    /\ subscribed' = {}
    /\ persist' = engine
    /\ api' = [NoApi EXCEPT !.last = api.last]
    /\ held' = NoHeld
    /\ selected' = NoSelected
    /\ UNCHANGED <<storeVars, pc, callArgs, nextState, stateDiff, idx, trace, calls,
                   delivered, errorVars, result, promise, stack, hooks, consumer,
                   localStorage, microtasks, callbacks>>

\* what running the continuation at the head of the queue does: the storage
\* and state it leaves, the callbacks it invokes, the continuations it
\* queues and the promises it settles
Ran(storage, current, called, tasks, promises) ==
    [storage |-> storage, state |-> current, callbacks |-> called, tasks |-> tasks,
     api |-> promises]

\* persistState after its await (tsup.config.ts lines 127-135), then the
\* .then / .catch of the persist middleware (devTools.ts lines 57-71)
RunPersistState(t, storage, current, promises) ==
    Ran(IF t.ok THEN [storage EXCEPT !.version = Marker(t.version)] ELSE storage,
        current,
        <<Callback(IF t.ok THEN "onPersistSuccess" ELSE "onPersistFailure", t.value)>>,
        IF t.origin = "middleware"
        THEN <<Task(IF t.ok THEN "then" ELSE "catch", t.ok, t.version, t.origin,
                    t.value, t.error)>>
        ELSE <<>>,
        promises)

RunThen(t, storage, current, promises) ==
    Ran(storage, current,
        <<Callback(IF t.ok THEN "onPersistSuccess" ELSE "onPersistFailure", t.value)>>,
        <<>>, promises)

\* migrate() after its await: see Migrate.  Its promise settles and the
\* continuation of reHydrate is queued
RunMigrate(t, engine, storage, current, promises, ok) ==
    LET read == IF t.ok THEN JsonOk(t.value) ELSE [JsonThrow("") EXCEPT !.error = t.error]
        m == Migrate(engine, read, storage, ok)
    IN Ran(m.storage, current, m.callbacks, m.tasks \o <<ReHydrateTask(m.outcome)>>,
           promises)

\* reHydrate after its await (lines 239-248).  A rejected migrate() rejects
\* reHydrate: the await is outside the try block.  Otherwise, if
\* (persistedState) { state = merge(state, persistedState);
\* onRehydrateSuccess(state, storeName) }
RunReHydrate(t, storage, current, promises) ==
    IF ~t.ok
    THEN Ran(storage, current, <<>>, <<>>,
             [promises EXCEPT !.reHydrate = "rejected", !.error = t.error,
                              !.seen = JsonNull])
    ELSE IF t.value.kind = "object"
    THEN Ran(storage, Merge(current, t.value.value),
             <<Callback("onRehydrateSuccess", JsonObject(Merge(current, t.value.value)))>>,
             <<>>, [promises EXCEPT !.reHydrate = "resolved", !.seen = JsonNull])
    ELSE Ran(storage, current, <<>>, <<>>,
             [promises EXCEPT !.reHydrate = "resolved", !.seen = JsonNull])

\* clearPersistedState after await storage.purge() (lines 142, 144-147):
\* storage.removeItem(key) runs in its executor; a failed purge is caught,
\* reported and thrown again
RunClearRemove(t, storage, current, promises) ==
    IF t.ok
    THEN Ran([storage EXCEPT !.item = JsonNull], current, <<>>,
             <<Task("clearVersion", TRUE, 0, "clear", JsonNull, NoError)>>,
             [promises EXCEPT !.last = JsonNull])
    ELSE Ran(storage, current, <<Callback("onPersistFailure", JsonNull)>>, <<>>,
             [promises EXCEPT !.clear = "rejected", !.error = t.error])

\* clearPersistedState after await storage.removeItem(key) (line 143):
\* localStorage.removeItem(`${key}_version`)
RunClearVersion(t, storage, current, promises) ==
    Ran([storage EXCEPT !.version = NoMarker], current, <<>>, <<>>,
        [promises EXCEPT !.clear = "resolved"])

RunTask(t, engine, storage, current, promises, ok) ==
    CASE t.kind = "persistState" -> RunPersistState(t, storage, current, promises)
      [] t.kind \in {"then", "catch"} -> RunThen(t, storage, current, promises)
      [] t.kind = "migrate"      -> RunMigrate(t, engine, storage, current, promises, ok)
      [] t.kind = "reHydrate"    -> RunReHydrate(t, storage, current, promises)
      [] t.kind = "clearRemove"  -> RunClearRemove(t, storage, current, promises)
      [] OTHER                   -> RunClearVersion(t, storage, current, promises)

\* the outcomes of the storage write a continuation starts: migrate() calls
\* persistState when it has run the steps
WriteOutcomes(t) == IF t.kind = "migrate" THEN BOOLEAN ELSE {TRUE}

\* the call stack is empty and the continuation at the head of the queue
\* runs.  The callbacks are those invoked since the queue started to run
RunMicrotask ==
    /\ pc = "idle"
    /\ microtasks.queue # <<>>
    /\ \E ok \in WriteOutcomes(Head(microtasks.queue)) :
          LET ran == RunTask(Head(microtasks.queue), persist, localStorage, state, api, ok)
          IN /\ localStorage' = ran.storage
             /\ state' = ran.state
             /\ api' = ran.api
             /\ callbacks' = (IF microtasks.draining THEN callbacks ELSE <<>>)
                                \o ran.callbacks
             /\ microtasks' = [queue |-> Tail(microtasks.queue) \o ran.tasks,
                               draining |-> Tail(microtasks.queue) \o ran.tasks # <<>>]
    /\ UNCHANGED <<metadata, fresh, storeVars, listeners, handles, subscribed, pc,
                   callArgs, nextState, stateDiff, idx, trace, calls, delivered,
                   errorVars, result, promise, held, selected, stack, hooks, consumer,
                   persist>>

\* setStateAsync lines 208-212: the promise the caller is handed, settled by
\* how the setState call inside ended.  The async action wrapper awaits that
\* promise and settles its own the same way
SettleAsync ==
    /\ pc = "returned"
    /\ entry = "setStateAsync"
    /\ promise.status = "none"
    /\ promise' = Settle(result, thrown)
    /\ UNCHANGED <<metadata, fresh, storeVars, state, listeners, handles, subscribed,
                   pc, callArgs, nextState, stateDiff, idx, trace, calls, delivered,
                   errorVars, result, held, selected, stack, hooks,
                   extVars>>

\* the call has returned or thrown; its caller goes on
Return ==
    /\ pc = "returned"
    /\ stack = <<>>
    /\ entry = "setStateAsync" => promise.status # "none"
    /\ inlineConfig' = NoInline
    /\ entry' = ""
    /\ wrapper' = NoWrapper
    /\ promise' = NoPromise
    /\ pc' = "idle"
    /\ updater' = NoUpdater
    /\ actionName' = ""
    /\ localMergedConfig' = NoConfig
    /\ prevState' = EmptyObject
    /\ nextState' = EmptyObject
    /\ stateDiff' = {}
    /\ idx' = 0
    /\ stateAtCall' = EmptyObject
    /\ trace' = <<>>
    /\ calls' = NoCalls
    /\ raised' = NoError
    /\ thrown' = NoError
    /\ handlerCalls' = 0
    /\ handlerState' = EmptyObject
    /\ delivered' = NoDelivered
    /\ result' = "none"
    /\ consumer' = [consumer EXCEPT !.propagated = FALSE]
    /\ UNCHANGED <<held, selected, stack, hooks, metadata, fresh, storeVars, state, listeners,
                   handles, subscribed, persistVars>>

Next ==
    \/ \E l \in Listeners : Subscribe(l)
    \/ \E l \in Listeners : Unsubscribe(l)
    \/ \E l \in Listeners : UnsubscribeFn(l)
    \/ \E c \in Calls : SetState(c)
    \/ \E c \in Calls : SetStateAsync(c)
    \/ \E k \in ActionKeys : \E args \in ActionArgs(k) : ActionWrapper(k, args)
    \/ GetState
    \/ \E w \in HeldWrites : MutateHeld(w[1], w[2])
    \/ \E k \in SelectorKeys : \E args \in SelectorArgs(k) : Select(k, args)
    \/ SettleAsync
    \/ \E p \in PersistedStates : ReHydrate(p)
    \/ RunTransformer
    \/ UpdaterNeedsTransformer
    \/ MergeUpdater
    \/ CheckDiff
    \/ RunBeforeMiddleware
    \/ Commit
    \/ RunAfterMiddleware
    \/ Notify
    \/ CatchError
    \/ Return

Spec == Init /\ [][Next]_vars

(***************************************************************************)
(* Callbacks that call back into the store.  setState has no guard against *)
(* being entered while a call is in progress: a middleware body that calls *)
(* store.setState runs a whole pipeline inside the middleware step of the  *)
(* outer call.  The outer call's locals are kept in a frame on the stack   *)
(* while the inner call runs.                                              *)
(***************************************************************************)
\* the middleware the call in progress is about to run, if it is a user one
MiddlewareAtHand ==
    IF pc = "before" /\ idx <= Len(localMergedConfig.beforeMiddlewares)
    THEN localMergedConfig.beforeMiddlewares[idx]
    ELSE IF pc = "after" /\ idx <= Len(localMergedConfig.afterMiddlewares)
    THEN localMergedConfig.afterMiddlewares[idx]
    ELSE ""

\* the locals of a call suspended in its middleware step pc[idx]
Frame ==
    [pc |-> pc, idx |-> idx, updater |-> updater, actionName |-> actionName,
     inlineConfig |-> inlineConfig, entry |-> entry, wrapper |-> wrapper,
     localMergedConfig |-> localMergedConfig, prevState |-> prevState,
     nextState |-> nextState, stateDiff |-> stateDiff, stateAtCall |-> stateAtCall,
     trace |-> Append(trace, <<pc, idx>>)]

\* the calls a middleware body makes
NestedCalls == {Call(Partial([count |-> 5]), "_", NoInline),
                Call(Fn("increment"), "nested", NoInline)}

\* a user middleware calls store.setState(...): lines 88-121 run for the
\* inner call while the outer call is inside its middleware step
MiddlewareCallsSetState(c) ==
    /\ MiddlewareAtHand \in {"userBefore", "userAfter"}
    /\ Len(stack) < MaxNested
    /\ WithinBounds(state, c.updater)
    /\ stack' = <<Frame>> \o stack
    /\ updater' = c.updater
    /\ actionName' = c.actionName
    /\ inlineConfig' = c.inline
    /\ entry' = "setState"
    /\ wrapper' = NoWrapper
    /\ localMergedConfig' = ResolveConfig(mergedConfig, c.inline)
    /\ prevState' = state
    /\ nextState' = state
    /\ stateAtCall' = state
    /\ stateDiff' = {}
    /\ trace' = <<>>
    /\ pc' = "step1"
    /\ idx' = 1
    /\ UNCHANGED <<metadata, fresh, storeVars, state, listeners, handles, subscribed,
                   calls, delivered, errorVars, result, promise, held, selected, hooks,
                   extVars>>

\* the inner call has returned or thrown into the middleware body: the
\* middleware returns, or throws what the inner call threw, and the outer
\* call goes on from its middleware step
ReturnNested ==
    /\ pc = "returned"
    /\ stack # <<>>
    /\ LET outer == Head(stack)
           last  == outer.idx = Len(IF outer.pc = "before"
                                    THEN outer.localMergedConfig.beforeMiddlewares
                                    ELSE outer.localMergedConfig.afterMiddlewares)
       IN /\ stack' = Tail(stack)
          /\ updater' = outer.updater
          /\ actionName' = outer.actionName
          /\ inlineConfig' = outer.inlineConfig
          /\ entry' = outer.entry
          /\ wrapper' = outer.wrapper
          /\ localMergedConfig' = outer.localMergedConfig
          /\ prevState' = outer.prevState
          /\ nextState' = outer.nextState
          /\ stateDiff' = outer.stateDiff
          /\ stateAtCall' = outer.stateAtCall
          /\ trace' = outer.trace
          /\ IF result = "thrown"
             THEN /\ raised' = thrown
                  /\ pc' = "catch"
                  /\ idx' = outer.idx
             ELSE /\ raised' = NoError
                  /\ pc' = IF last THEN Enter(outer.pc, outer.localMergedConfig)
                                  ELSE outer.pc
                  /\ idx' = IF last THEN 1 ELSE outer.idx + 1
    /\ thrown' = NoError
    /\ handlerCalls' = 0
    /\ handlerState' = EmptyObject
    /\ result' = "none"
    /\ UNCHANGED <<metadata, fresh, storeVars, state, listeners, handles, subscribed,
                   calls, delivered, promise, held, selected, hooks,
                   extVars>>

\* the callers of the store with re-entrant middlewares
ReentrantCalls == {Call(Partial([count |-> 0]), "_", NoInline),
                   Call(Fn("decrement"), "decrement", NoInline),
                   Call(Fn("increment"), "_", Inline({"transformers"}, NoConfig))}

NextReentrant ==
    \/ \E l \in Listeners : Subscribe(l)
    \/ \E c \in ReentrantCalls : SetState(c)
    \/ \E k \in {"resetAsync"} : \E args \in ActionArgs(k) : ActionWrapper(k, args)
    \/ RunTransformer
    \/ UpdaterNeedsTransformer
    \/ MergeUpdater
    \/ CheckDiff
    \/ RunBeforeMiddleware
    \/ Commit
    \/ RunAfterMiddleware
    \/ Notify
    \/ CatchError
    \/ SettleAsync
    \/ Return
    \/ \E c \in NestedCalls : MiddlewareCallsSetState(c)
    \/ ReturnNested

SpecReentrant == Init /\ [][NextReentrant]_vars

(***************************************************************************)
(* The hooks proxy on its own: a store that holds any of HookStates, and    *)
(* callers that read hooks from it.                                         *)
(***************************************************************************)
\* the object that holds the field a path ends in exists in the state
ParentReachable(current, path) ==
    \A i \in 1..(Len(path) - 1) :
        /\ SafeGet(current, SubSeq(path, 1, i)).kind = "object"
        /\ path[i] \in DOMAIN SafeGet(current, SubSeq(path, 1, i - 1)).fields

\* "use" + the field name with its first character in upper case
AccessorName(k) == <<"u", "s", "e">> \o <<ToUpperCase(Head(k))>> \o Tail(k)

\* the store of the test suite, holding one of HookStates
InitHooks ==
    /\ InitStore
    /\ metadata.initialState = TestsInitialState
    /\ mergedConfig = Config(TestChains[1], TestChains[2], TestChains[3], TRUE, TRUE)
    /\ validations = TestValidations
    /\ hooks \in {[NoHooks EXCEPT !.state = current] : current \in HookStates}

\* store.hooks.<parent segments>.use<Field>() for the dot-path `path`
UseHook(path) ==
    /\ ParentReachable(hooks.state, path)
    /\ hooks' = [hooks EXCEPT
                    !.used = TRUE,
                    !.path = path,
                    !.result = CallHook(hooks.state, Container(path),
                                        AccessorName(path[Len(path)])),
                    !.read = FALSE,
                    !.node = NoProperty]
    /\ UNCHANGED <<metadata, fresh, storeVars, state, listeners, handles, subscribed,
                   pc, callArgs, nextState, stateDiff, idx, trace, calls, delivered,
                   errorVars, result, promise, held, selected, stack,
                   extVars>>

\* store.hooks.<segments>: the property reads along the dot-path `path`,
\* the last one being the read of the field name itself
ReadGroup(path) ==
    /\ ParentReachable(hooks.state, path)
    /\ hooks' = [hooks EXCEPT
                    !.used = FALSE,
                    !.result = JsUndefined,
                    !.read = TRUE,
                    !.path = path,
                    !.node = ReadChain(hooks.state, NestedProxy(<<>>), path)]
    /\ UNCHANGED <<metadata, fresh, storeVars, state, listeners, handles, subscribed,
                   pc, callArgs, nextState, stateDiff, idx, trace, calls, delivered,
                   errorVars, result, promise, held, selected, stack,
                   extVars>>

NextHooks ==
    \/ \E path \in HookPaths : UseHook(path)
    \/ \E path \in HookPaths : ReadGroup(path)

SpecHooks == InitHooks /\ [][NextHooks]_vars

(***************************************************************************)
(* A component that reads the store through a subscription hook: the store *)
(* of the createHooks tests, the updates those tests make, and one         *)
(* component that mounts and unmounts.                                     *)
(***************************************************************************)
\* the updates of the createHooks tests (count = 5, count += 1, count = 0,
\* profile.name = ..., profile = {...}), a push to names, and an update the
\* validation rejects
RenderCalls ==
    {Call(Fn(f), "_", NoInline) :
        f \in {"increment", "setName", "setProfile", "addName", "setNegative"}}
    \cup {Call(Partial(o), "_", NoInline) : o \in {[count |-> 0], [count |-> 5]}}

InitRender ==
    /\ metadata = [initialState |-> TestsInitialState]
    /\ mergedConfig = Config(TestChains[1], TestChains[2], TestChains[3], TRUE, TRUE)
    /\ validations = TestValidations
    /\ state = CreateStoreState(metadata)
    /\ InitLocals
    /\ hooks = NoHooks
    /\ consumer = NoConsumer
    /\ localStorage = EmptyStorage
    /\ persist = NoEngine

NextRender ==
    \/ \E path \in RenderPaths : Mount(path)
    \/ Unmount
    \/ \E c \in RenderCalls : SetState(c)
    \/ RunTransformer
    \/ MergeUpdater
    \/ CheckDiff
    \/ RunBeforeMiddleware
    \/ Commit
    \/ RunAfterMiddleware
    \/ Notify
    \/ CatchError
    \/ Return

SpecRender == InitRender /\ [][NextRender]_vars

(***************************************************************************)
(* A store with a persist engine: the store of tests/persist.test.ts, its  *)
(* callers, the stores created after it over the same storage, and the     *)
(* microtasks.                                                             *)
(***************************************************************************)
\* the update the callers make: actions.increment() of the test suite
PersistCalls == {ActionCall("increment")}

\* a caller's setState; the guards keep the model within its bounds
PersistCall(c) ==
    /\ CallerRuns
    /\ Len(microtasks.queue) < MaxTasks
    /\ c.updater.name = "increment" => state.count < MaxStored
    /\ SetState(c)

InitPersist ==
    /\ metadata = [initialState |-> TestsInitialState]
    /\ mergedConfig = Config(PersistChains[1], PersistChains[2], PersistChains[3],
                             TRUE, TRUE)
    /\ validations = NoValidations
    /\ state = CreateStoreState(metadata)
    /\ InitLocals
    /\ hooks = NoHooks
    /\ consumer = NoConsumer
    /\ localStorage = EmptyStorage
    /\ persist \in {TestEngine, NoEngine}

NextPersist ==
    \/ CallerRuns /\ Subscribe("l1")
    \/ \E c \in PersistCalls : PersistCall(c)
    \/ ReHydrateCall
    \/ ClearCall
    \/ Destroy
    \/ CreateStore(persist)
    \/ RunMicrotask
    \/ RunTransformer
    \/ CheckDiff
    \/ RunBeforeMiddleware
    \/ Commit
    \/ RunAfterMiddleware
    \/ Notify
    \/ CatchError
    \/ Return

SpecPersist == InitPersist /\ [][NextPersist]_vars

(***************************************************************************)
(* The round trip of tests/persist.test.ts: a store with the persist       *)
(* middleware is updated, a store is created once more over the same       *)
(* storage with the same key and version, and reHydrate() is awaited.      *)
(***************************************************************************)
\* the updates the callers make: actions.increment() of the test suite and
\* the assignment of a profile that has a name only
\*   setState((s) => { s.profile = { name: 'New Name' } })
RoundTripCalls == {ActionCall("increment"), Call(Fn("newProfile"), "_", NoInline)}

InitRoundTrip ==
    /\ InitPersist
    /\ persist = TestEngine

NextRoundTrip ==
    \/ \E c \in RoundTripCalls : PersistCall(c)
    \/ ReHydrateCall
    \/ CreateStore(persist)
    \/ RunMicrotask
    \/ RunTransformer
    \/ CheckDiff
    \/ RunBeforeMiddleware
    \/ Commit
    \/ RunAfterMiddleware
    \/ Notify
    \/ Return

SpecRoundTrip == InitRoundTrip /\ [][NextRoundTrip]_vars

(***************************************************************************)
(* A store created over a storage that earlier stores have written, with   *)
(* an engine of any version: its reHydrate() calls, its updates and the    *)
(* microtasks.                                                             *)
(***************************************************************************)
\* the states an earlier store has committed: increments, and the
\* assignment of a profile that has a name only
StoredStates ==
    {[TestsInitialState EXCEPT !.count = c] : c \in 0..MaxStored}
    \cup {Mutate("newProfile", TestsInitialState, <<>>)}

\* what the storage holds when the store is created: nothing; a state the
\* persist middleware of a store of version v has written; or a state a
\* migration to version v has written
StoredStorages ==
    {EmptyStorage}
    \cup {[item |-> WebStorageSetItem(EmptyStorage, Stringify(JsonObject(s))).item,
           version |-> Marker(v), others |-> {}] : s \in StoredStates, v \in 1..MaxVersion}
    \cup {[item |-> WebStorageSetItem(EmptyStorage, JsonObject(Stamp(s, v))).item,
           version |-> Marker(v), others |-> {}] : s \in StoredStates, v \in 2..MaxVersion}

\* the update the callers make: a push to names
MigrateCalls == {Call(Fn("addName"), "_", NoInline)}

\* a caller's setState
MigrateCall(c) ==
    /\ CallerRuns
    /\ Len(microtasks.queue) < MaxTasks
    /\ SetState(c)

InitMigrate ==
    /\ metadata = [initialState |-> TestsInitialState]
    /\ mergedConfig = Config(PersistChains[1], PersistChains[2], PersistChains[3],
                             TRUE, TRUE)
    /\ validations = NoValidations
    /\ state = CreateStoreState(metadata)
    /\ InitLocals
    /\ hooks = NoHooks
    /\ consumer = NoConsumer
    /\ localStorage \in StoredStorages
    /\ persist \in Engines

NextMigrate ==
    \/ \E c \in MigrateCalls : MigrateCall(c)
    \/ ReHydrateCall
    \/ RunMicrotask
    \/ RunTransformer
    \/ CheckDiff
    \/ RunBeforeMiddleware
    \/ Commit
    \/ RunAfterMiddleware
    \/ Notify
    \/ Return

SpecMigrate == InitMigrate /\ [][NextMigrate]_vars

(***************************************************************************)
(* Stores whose transformer chain holds more than one transformer:         *)
(* immerTransformer more than once, and user transformers between.         *)
(***************************************************************************)
FoldChains ==
    { <<"immerTransformer">>,
      <<"immerTransformer", "immerTransformer">>,
      <<"userTransformer", "immerTransformer">>,
      <<"immerTransformer", "userTransformer", "immerTransformer">> }

\* function updates: actions of the counter store, a push to names and an
\* updater that changes nothing
FoldCalls ==
    {ActionCall(k) : k \in {"increment", "decrement"}}
    \cup {Call(Fn(f), "_", NoInline) : f \in {"addName", "identity"}}

InitFold ==
    /\ metadata = [initialState |-> TestsInitialState]
    /\ mergedConfig \in {Config(t, TestChains[2], TestChains[3], r, TRUE) :
                             t \in FoldChains, r \in BOOLEAN}
    /\ validations = NoValidations
    /\ state = CreateStoreState(metadata)
    /\ InitLocals
    /\ hooks = NoHooks
    /\ consumer = NoConsumer
    /\ localStorage = EmptyStorage
    /\ persist = NoEngine

NextFold ==
    \/ Subscribe("l1")
    \/ \E c \in FoldCalls : SetState(c)
    \/ RunTransformer
    \/ CheckDiff
    \/ RunBeforeMiddleware
    \/ Commit
    \/ RunAfterMiddleware
    \/ Notify
    \/ CatchError
    \/ Return

SpecFold == InitFold /\ [][NextFold]_vars

(***************************************************************************)
(* User callbacks that write to the arguments they are handed, while they  *)
(* run or later through a reference they kept: the prevState and nextState *)
(* of a middleware, the snapshot of a listener, the lastGoodState of the   *)
(* global error handler.  The updates are function updates.                *)
(***************************************************************************)
ArgumentRoles == {"prevState", "nextState", "snapshot", "lastGoodState"}

\* the object itself: whoever holds it shares every object in it
SameObject(value) == [value |-> value, shared |-> {<<>>, <<"profile">>}]

\* a middleware that is handed the candidate itself
MiddlewareArgument_Same(next) == SameObject(next)

\* lines 165 and 182: the nextState argument of a middleware is
\* cloneDeep(nextState)
MiddlewareArgument(next) == CloneDeep(next)

\* a user middleware has run in the call in progress
UserMiddlewareRan ==
    \E i \in 1..Len(trace) :
        \/ /\ trace[i][1] = "before"
           /\ localMergedConfig.beforeMiddlewares[trace[i][2]] = "userBefore"
        \/ /\ trace[i][1] = "after"
           /\ localMergedConfig.afterMiddlewares[trace[i][2]] = "userAfter"

\* a callback of the call in progress has been handed the argument
Handed(role) ==
    /\ pc # "idle"
    /\ CASE role = "prevState"     -> UserMiddlewareRan
         [] role = "nextState"     -> UserMiddlewareRan
         [] role = "snapshot"      -> delivered["l1"].delivered
         [] role = "lastGoodState" -> handlerCalls > 0

\* the argument: its value, and the objects it shares with the object of
\* the store it was made from.  prevState is handed to the middlewares as
\* it is (lines 164, 181), and so is state to globalErrorHandler (line
\* 196); a listener gets the clone notify made (lines 218-219)
Argument(role) ==
    CASE role = "prevState"     -> SameObject(prevState)
      [] role = "nextState"     -> MiddlewareArgument(nextState)
      [] role = "snapshot"      -> CloneDeep(delivered["l1"].snapshot)
      [] role = "lastGoodState" -> SameObject(state)

\* the object `state` refers to: the one prevState refers to after line 193,
\* the one nextState refers to after line 174, else the one it referred to
\* when the call began
StateIs ==
    IF pc = "returned" /\ result = "thrown" /\ localMergedConfig.rollbackOnError
    THEN "prev"
    ELSE IF \E i \in 1..Len(trace) : trace[i][1] = "commit" THEN "next"
    ELSE "state"

\* the object of the store an argument was made from
ObjectOf(role) ==
    CASE role = "prevState"     -> "prev"
      [] role = "nextState"     -> "next"
      [] role = "lastGoodState" -> StateIs
      [] OTHER                  -> "none"

\* the callback writes x at path of its argument; the write reaches the
\* object of the store when the object written to is one the two share
WriteArgument(role, path, x) ==
    /\ Handed(role)
    /\ ~held.taken
    /\ LET arg == Argument(role)
           object == IF Container(path) \in arg.shared THEN ObjectOf(role) ELSE "none"
       IN  /\ held' = [taken |-> TRUE, first |-> arg.value,
                       value |-> WriteAt(arg.value, path, x),
                       shared |-> arg.shared, again |-> FALSE,
                       later |-> EmptyObject, role |-> role]
           /\ prevState' = IF object = "prev" THEN WriteAt(prevState, path, x)
                           ELSE prevState
           /\ nextState' = IF object = "next" THEN WriteAt(nextState, path, x)
                           ELSE nextState
           /\ state' = IF object = StateIs THEN WriteAt(state, path, x) ELSE state
    /\ UNCHANGED <<metadata, fresh, storeVars, listeners, handles, subscribed, pc,
                   updater, actionName, inlineConfig, entry, wrapper,
                   localMergedConfig, stateAtCall, stateDiff, idx, trace, calls,
                   delivered, errorVars, result, promise, selected, stack, hooks,
                   extVars>>

AliasCalls == {ActionCall("increment"), Call(Fn("addName"), "_", NoInline)}

InitAlias ==
    /\ metadata = [initialState |-> TestsInitialState]
    /\ mergedConfig \in {Config(TestChains[1], UserChains[2], UserChains[3], r, TRUE) :
                             r \in BOOLEAN}
    /\ validations = NoValidations
    /\ state = CreateStoreState(metadata)
    /\ InitLocals
    /\ hooks = NoHooks
    /\ consumer = NoConsumer
    /\ localStorage = EmptyStorage
    /\ persist = NoEngine

NextAlias ==
    \/ Subscribe("l1")
    \/ \E c \in AliasCalls : SetState(c)
    \/ \E role \in ArgumentRoles : \E w \in HeldWrites : WriteArgument(role, w[1], w[2])
    \/ RunTransformer
    \/ CheckDiff
    \/ RunBeforeMiddleware
    \/ Commit
    \/ RunAfterMiddleware
    \/ Notify
    \/ CatchError
    \/ Return

SpecAlias == InitAlias /\ [][NextAlias]_vars

(***************************************************************************)
(* Partial-object updates that name fields holding an array or an object,  *)
(* on a store whose names the callers have pushed to.                      *)
(***************************************************************************)
NestedPartials ==
    { EmptyObject,
      [count |-> 5],
      [count |-> -1],
      [names |-> <<>>],
      [names |-> <<"b">>],
      [profile |-> [name |-> "New Name"]],
      [count |-> 5, profile |-> [age |-> 25, name |-> "John Doe", status |-> "active"]] }

\* setState(partial), with and without `transformers: []` inline, and the
\* push to names
PartialCalls ==
    {Call(Partial(o), "_", i) : o \in NestedPartials,
                                i \in {NoInline, Inline({"transformers"}, NoConfig)}}
    \cup {Call(Fn("addName"), "_", NoInline)}

InitPartial ==
    /\ metadata = [initialState |-> TestsInitialState]
    /\ mergedConfig \in {Config(TestChains[1], TestChains[2], TestChains[3], r, TRUE) :
                             r \in BOOLEAN}
    /\ validations \in ValidationSets
    /\ state = CreateStoreState(metadata)
    /\ InitLocals
    /\ hooks = NoHooks
    /\ consumer = NoConsumer
    /\ localStorage = EmptyStorage
    /\ persist = NoEngine

NextPartial ==
    \/ Subscribe("l1")
    \/ \E c \in PartialCalls : SetState(c)
    \/ RunTransformer
    \/ MergeUpdater
    \/ CheckDiff
    \/ RunBeforeMiddleware
    \/ Commit
    \/ RunAfterMiddleware
    \/ Notify
    \/ CatchError
    \/ Return

SpecPartial == InitPartial /\ [][NextPartial]_vars

(***************************************************************************)
(* A store with a persist engine over a storage in which another store     *)
(* keeps its own entries: updates, persist.clear and destroy.              *)
(***************************************************************************)
\* the keys of another store's engine: its payload and its version marker
OtherKeys == {"other", "other_version"}

\* another store's engine writes under one of its keys:
\* storage.setItem(key, ...) of WebStorage or of the marker
OtherStoreWrites(k) ==
    /\ CallerRuns
    /\ k \notin localStorage.others
    /\ localStorage' = [localStorage EXCEPT !.others = @ \cup {k}]
    /\ UNCHANGED <<metadata, fresh, storeVars, state, listeners, handles, subscribed, pc,
                   callArgs, nextState, stateDiff, idx, trace, calls, delivered,
                   errorVars, result, promise, held, selected, stack, hooks, consumer,
                   persist, microtasks, callbacks, api>>

InitClear ==
    /\ InitPersist
    /\ persist = TestEngine

NextClear ==
    \/ CallerRuns /\ Subscribe("l1")
    \/ \E k \in OtherKeys : OtherStoreWrites(k)
    \/ \E c \in PersistCalls : PersistCall(c)
    \/ ClearCall
    \/ Destroy
    \/ RunMicrotask
    \/ RunTransformer
    \/ CheckDiff
    \/ RunBeforeMiddleware
    \/ Commit
    \/ RunAfterMiddleware
    \/ Notify
    \/ CatchError
    \/ Return

SpecClear == InitClear /\ [][NextClear]_vars

(***************************************************************************)
(* Properties                                                              *)
(***************************************************************************)
Steps == {trace[i] : i \in 1..Len(trace)}
LastStep == IF trace = <<>> THEN <<"none", 0>> ELSE trace[Len(trace)]
Returned == pc = "returned"
\* the call threw out of a before- or an after-middleware
MiddlewareThrew == Returned /\ result = "thrown" /\ LastStep[1] \in {"before", "after"}

C2_InitialStateFromMetadata ==
    fresh => state = metadata.initialState

\* step 1 of the call is over: the candidate is built
CandidateBuilt == pc = "diff" \/ <<"diff", 0>> \in Steps

\* C3: an update whose candidate equals the state before the call leaves the
\* state as it was, returns early, runs no before- or after-middleware, no
\* commit and no notification, and invokes no listener and no error handler.
C3_NoOpIdempotence ==
    (CandidateBuilt /\ nextState = stateAtCall) =>
        /\ pc \in {"diff", "returned"}
        /\ Returned => result = "noop"
        /\ state = stateAtCall
        /\ \A e \in Steps : e[1] \in {"transformer", "merge", "diff"}
        /\ calls = NoCalls
        /\ delivered = NoDelivered
        /\ handlerCalls = 0

\* setState({}) has returned early with a listener subscribed
C3_Witness ==
    /\ Returned
    /\ result = "noop"
    /\ updater = Partial(EmptyObject)
    /\ listeners # <<>>
    /\ state = stateAtCall

Chain(list) == {list[i] : i \in 1..Len(list)}
\* the call in progress is actions.increment()
IsIncrementCall == pc # "idle" /\ updater = Fn("increment") /\ actionName = "increment"
\* the counter store: increment is validated by the "max" rule
CounterStore ==
    /\ validations = TestValidations
    /\ "validation" \in Chain(localMergedConfig.beforeMiddlewares)
\* no user transformer or middleware is configured
OnlyTestChains ==
    /\ Chain(localMergedConfig.transformers) = {"immerTransformer"}
    /\ Chain(localMergedConfig.beforeMiddlewares) = {"validation"}
    /\ Chain(localMergedConfig.afterMiddlewares) = {"logger"}

\* C4: in the counter store an increment call never takes count from below
\* validationErrorMaxValue to it, and a call at count 9 throws and leaves
\* count at 9; with no user transformer or middleware the error raised is the
\* validation error, and with no listener either a call at count < 9
\* succeeds with count + 1 (so nine calls from 0 succeed, the tenth throws).
C4_ValidationGate ==
    (IsIncrementCall /\ CounterStore) =>
        /\ stateAtCall.count < validationErrorMaxValue
              => state.count < validationErrorMaxValue
        /\ (Returned /\ stateAtCall.count + 1 = validationErrorMaxValue) =>
              /\ result = "thrown"
              /\ state.count = validationErrorMaxValue - 1
              /\ OnlyTestChains => raised.type = "Validation Error"
              /\ (OnlyTestChains /\ listeners = <<>>) => thrown.type = "Validation Error"
        /\ (/\ Returned
            /\ stateAtCall.count + 1 < validationErrorMaxValue
            /\ OnlyTestChains
            /\ listeners = <<>>) =>
              /\ result = "ok"
              /\ state.count = stateAtCall.count + 1

\* the tenth increment: called at count 9, it threw the validation error
C4_Witness ==
    /\ IsIncrementCall
    /\ CounterStore
    /\ OnlyTestChains
    /\ Returned
    /\ stateAtCall.count = validationErrorMaxValue - 1
    /\ thrown.type = "Validation Error"
    /\ state.count = validationErrorMaxValue - 1

\* C5: with validationMiddleware configured and a `_` rule registered, a
\* function update of any action name whose candidate the `_` rule rejects is
\* vetoed and leaves the state as it was.
C5_WildcardAppliesToEveryAction ==
    (/\ Returned
     /\ updater.kind = "function"
     /\ "validation" \in Chain(localMergedConfig.beforeMiddlewares)
     /\ "_" \in DOMAIN validations
     /\ <<"diff", 0>> \in Steps
     /\ nextState # stateAtCall
     /\ RuleRejects(validations["_"], stateAtCall, nextState)) =>
        /\ result = "thrown"
        /\ state = stateAtCall

Loop(kind, n) == [i \in 1..n |-> <<kind, i>>]
\* transformers -> diff -> before-middlewares -> commit -> after-middlewares
\* -> notify, each chain in its configured order
ExpectedTrace ==
    (IF updater.kind = "function"
     THEN Loop("transformer", Len(localMergedConfig.transformers))
     ELSE <<(<<"merge", 0>>)>>)
    \o <<(<<"diff", 0>>)>>
    \o Loop("before", Len(localMergedConfig.beforeMiddlewares))
    \o <<(<<"commit", 0>>)>>
    \o Loop("after", Len(localMergedConfig.afterMiddlewares))
    \o <<(<<"notify", 0>>)>>

\* C6: a successful setState call with a diff has run all transformers in
\* order, then the diff, then every before-middleware in order, then the
\* commit, then every after-middleware in order, then the notification.
C6_PipelineOrder ==
    (Returned /\ result = "ok") =>
        /\ trace = ExpectedTrace
        /\ \A l \in Chain(listeners) : calls[l] > 0

\* a successful call with two steps in each chain and a listener
C6_Witness ==
    /\ Returned
    /\ result = "ok"
    /\ Len(localMergedConfig.transformers) = 2
    /\ Len(localMergedConfig.beforeMiddlewares) = 2
    /\ Len(localMergedConfig.afterMiddlewares) = 2
    /\ listeners # <<>>
    /\ \A l \in Chain(listeners) : calls[l] = 1

\* C7: the state changes only at the commit: while a transformer or a
\* before-middleware is running getState() returns the pre-update state, and
\* after a before-middleware veto with rollbackOnError disabled the state
\* equals the pre-update state.
C7_CommitIsOnlyMutation ==
    /\ pc \in {"step1", "before"} => state = stateAtCall
    /\ (/\ Returned
        /\ result = "thrown"
        /\ LastStep[1] = "before"
        /\ ~localMergedConfig.rollbackOnError) => state = stateAtCall

\* C8: a call that ends by throwing throws the error that was raised, after
\* exactly one invocation of the global error handler with the store's state.
C8_ErrorSurfacedOnce ==
    (Returned /\ result = "thrown") =>
        /\ thrown = raised
        /\ handlerCalls = 1
        /\ handlerState = state

\* C9: when a call ends with its candidate committed as the store's state
\* (and no listener has thrown), every subscribed listener has been invoked
\* exactly once, with a snapshot equal to the committed state.
C9_NotifiedOncePerCommit ==
    (/\ Returned
     /\ <<"commit", 0>> \in Steps
     /\ state = nextState
     /\ raised.type # "listener error") =>
        \A l \in Chain(listeners) :
            /\ calls[l] = 1
            /\ delivered[l] = Snapshot(nextState)

\* C10: a listener the caller has removed, through unsubscribe or through
\* the function subscribe returned, is not invoked by any later call; the
\* listener set holds exactly the listeners subscribed and not removed, so
\* removing a listener removes no other and removing one that is not
\* registered changes nothing.
C10_UnsubscribedNeverInvoked ==
    /\ \A l \in Listeners \ subscribed : calls[l] = 0 /\ delivered[l] = NoSnapshot
    /\ Chain(listeners) = subscribed
    /\ Len(listeners) = Cardinality(subscribed)

\* l1 was subscribed and removed; a later update notified l2 and not l1
C10_Witness ==
    /\ Returned
    /\ result = "ok"
    /\ "l1" \in handles
    /\ ~Has(listeners, "l1")
    /\ Has(listeners, "l2")
    /\ calls["l2"] = 1
    /\ calls["l1"] = 0

\* C11: getState() returns a defensive copy: whatever the caller writes to
\* the value it was handed, at the top level or inside the nested profile
\* object, the store's state stays the value getState() returned, and a later
\* getState() with no update in between returns a value equal to the first.
C11_GetStateDefensiveCopy ==
    held.taken =>
        /\ state = held.first
        /\ held.again => held.later = held.first

\* the caller wrote to the nested profile object of the value it held, and a
\* later getState() returned the unwritten value
C11_Witness ==
    /\ held.taken
    /\ held.again
    /\ held.value.profile.age # held.first.profile.age
    /\ held.later = held.first

\* the call in progress is a function update under an empty transformer list
FunctionWithoutTransformer ==
    /\ pc # "idle"
    /\ updater.kind = "function"
    /\ localMergedConfig.transformers = <<>>

\* C12: a function update whose resolved transformer list is empty fails with
\* an error: no pipeline step runs (no diff, no middleware, no commit), the
\* call ends by throwing, and the state stays the state before the call.
C12_FunctionNeedsTransformer ==
    FunctionWithoutTransformer =>
        /\ pc \in {"step1", "catch", "returned"}
        /\ trace = <<>>
        /\ state = stateAtCall
        /\ pc # "step1" => raised.type = "You must use a transformer"
        /\ Returned => result = "thrown" /\ thrown.type # "none"

\* setState(fn, '_', { transformers: [] }) has thrown
C12_Witness ==
    /\ FunctionWithoutTransformer
    /\ Returned
    /\ result = "thrown"
    /\ "transformers" \in inlineConfig.has
    /\ handlerCalls = 1
    /\ state = stateAtCall

\* the immer transformer has been run for the call in progress, under a
\* resolved configuration without useImmer.produce
ImmerRanWithoutProduce ==
    /\ pc # "idle"
    /\ ~localMergedConfig.produce
    /\ \E i \in 1..Len(localMergedConfig.transformers) :
          /\ localMergedConfig.transformers[i] = "immerTransformer"
          /\ <<"transformer", i>> \in Steps

\* C13: when the immer transformer runs and the resolved configuration has no
\* useImmer.produce, it throws the error that names the missing produce
\* function: the pipeline goes no further (the update is not skipped as a
\* no-op, nothing is committed), the call ends by throwing, and the state
\* stays the state before the call.
C13_ImmerNeedsProduce ==
    ImmerRanWithoutProduce =>
        /\ pc \in {"catch", "returned"}
        /\ raised = Error("immerTransformer: produce function is not defined in config.", 1)
        /\ LastStep[1] = "transformer"
        /\ state = stateAtCall
        /\ Returned => result = "thrown" /\ thrown.type # "none"

\* the call of the test suite: { useImmer: {}, transformers: [immerTransformer] }
\* inline, on a store whose own configuration has produce
C13_Witness ==
    /\ ImmerRanWithoutProduce
    /\ mergedConfig.produce
    /\ "useImmer" \in inlineConfig.has
    /\ Returned
    /\ result = "thrown"
    /\ thrown = raised
    /\ state = stateAtCall

\* field by field: the inline value when the caller supplied the field, the
\* store-level value (spread over the global one) otherwise
LastWriteWins(merged, inline) ==
    [transformers      |-> IF "transformers" \in inline.has
                           THEN inline.config.transformers ELSE merged.transformers,
     beforeMiddlewares |-> IF "beforeMiddlewares" \in inline.has
                           THEN inline.config.beforeMiddlewares
                           ELSE merged.beforeMiddlewares,
     afterMiddlewares  |-> IF "afterMiddlewares" \in inline.has
                           THEN inline.config.afterMiddlewares
                           ELSE merged.afterMiddlewares,
     rollbackOnError   |-> IF "rollbackOnError" \in inline.has
                           THEN inline.config.rollbackOnError ELSE merged.rollbackOnError,
     logDiff           |-> IF "logDiff" \in inline.has
                           THEN inline.config.logDiff ELSE merged.logDiff,
     produce           |-> IF "useImmer" \in inline.has
                           THEN inline.config.produce ELSE merged.produce]

\* C14: the configuration a call runs under is, field by field, the inline
\* value when the inline config supplies the field (false and the empty list
\* included) and the store-level value otherwise; so a failing call with
\* inline rollbackOnError = false keeps what it committed.
C14_LastWriteWins ==
    pc # "idle" =>
        /\ localMergedConfig = LastWriteWins(mergedConfig, inlineConfig)
        /\ (/\ Returned
            /\ result = "thrown"
            /\ <<"commit", 0>> \in Steps
            /\ "rollbackOnError" \in inlineConfig.has
            /\ ~inlineConfig.config.rollbackOnError) => state = nextState

\* the call in progress entered through setStateAsync
IsAsyncCall == pc # "idle" /\ entry = "setStateAsync"

IsSyncActionCall == pc # "idle" /\ wrapper.key # "" /\ ~IsAsyncFunction(wrapper.key)

\* C16: a call of the synchronous wrapper actions.k(...args) is one setState
\* call whose actionName is k and whose update is action k bound to exactly
\* those args: the rule registered under k is the one validationMiddleware
\* applies, and a successful call leaves the state the action body makes of
\* the previous state, applied once, and notifies every listener once.
C16_ActionWrapper ==
    IsSyncActionCall =>
        /\ entry = "setState"
        /\ actionName = wrapper.key
        /\ updater = FnWith(wrapper.key, wrapper.args)
        /\ (/\ Returned
            /\ \E i \in 1..Len(localMergedConfig.beforeMiddlewares) :
                  /\ localMergedConfig.beforeMiddlewares[i] = "validation"
                  /\ <<"before", i>> \in Steps
            /\ wrapper.key \in DOMAIN validations
            /\ RuleRejects(validations[wrapper.key], prevState, nextState))
              => result = "thrown"
        /\ (Returned /\ result = "ok") =>
              /\ state = WholeBody(Body(wrapper.key), stateAtCall, wrapper.args)
              /\ \A l \in Chain(listeners) : calls[l] = 1

\* actions.add(3) has succeeded with a listener subscribed
C16_Witness ==
    /\ IsSyncActionCall
    /\ wrapper = Wrapper("add", <<3>>)
    /\ Returned
    /\ result = "ok"
    /\ state.count = stateAtCall.count + 3
    /\ listeners # <<>>

\* C17: when the promise of an async action wrapper has resolved, the state
\* holds every mutation the action body applied to its draft, those after the
\* body's first await included.
C17_AsyncActionAwaitsBody ==
    (/\ pc # "idle"
     /\ wrapper.key # ""
     /\ IsAsyncFunction(wrapper.key)
     /\ promise.status = "resolved") =>
        state = WholeBody(Body(wrapper.key), stateAtCall, wrapper.args)

\* C19: what a selector wrapper returned is the selector applied to the
\* store's current state and the wrapper's args, whatever updates and
\* rollbacks came before, and the invocation left the state as it was, even
\* for a selector that writes to the state it is handed.
C19_SelectorsNeverCache ==
    selected.key # "" =>
        /\ selected.value = Selector(selected.key, state, selected.args)
        /\ state = selected.before

\* a selector read a state that updates made different from the initial one
C19_Witness ==
    /\ selected.key = "isDivisibleBy"
    /\ selected.value = Bool(TRUE)
    /\ state.count = 3
    /\ pc = "idle"

\* a call is running its pipeline steps (it has started and has neither
\* finished notifying nor thrown)
PipelineRunning == pc \notin {"idle", "returned"}

\* C18: no call runs its pipeline steps while another call on the store has
\* started and not finished, whoever makes the call, a middleware body
\* included.
C18_OnePipelineAtATime ==
    PipelineRunning => stack = <<>>

\* the value stored at a dot-path, null when a segment is absent
RECURSIVE ValueAt(_, _)
ValueAt(current, path) ==
    IF path = <<>> THEN current
    ELSE IF current.kind = "object" /\ Head(path) \in DOMAIN current.fields
    THEN ValueAt(current.fields[Head(path)], Tail(path))
    ELSE JsNull

\* C20: the accessor "use" + capitalize(k), read on the accessor group of the
\* parent of a dot-path p that ends in field k, returns the value the latest
\* state stores at p (0, '' and false as themselves), and null when the
\* field is absent.
C20_HookReturnsValueAtPath ==
    hooks.used => hooks.result = ValueAt(hooks.state, hooks.path)

\* the accessor group a dot-path's last segment is read on exists: every
\* read before the last one gave a nested group
GroupExists(current, path) ==
    ReadChain(current, NestedProxy(<<>>), Container(path)).kind = "proxy"

\* C21: a field name read on an accessor group gives the nested accessor
\* group of that field exactly when the value the state stores there is a
\* plain object; for an array, a primitive, null or an absent field no group
\* is given, whatever the spelling of the name.
C21_NestedGroupIffPlainObject ==
    (hooks.read /\ GroupExists(hooks.state, hooks.path)) =>
        (hooks.node = NestedProxy(hooks.path)
            <=> ValueAt(hooks.state, hooks.path).kind = "object")

\* the update in progress has ended without an error and has left the value
\* at the component's path as it was: it changed other paths only, or wrote
\* the value the path already had
PathUntouched ==
    /\ consumer.mounted
    /\ pc = "returned"
    /\ result \in {"ok", "noop"}
    /\ StateAt(prevState, consumer.path) = StateAt(state, consumer.path)

\* C22: an update that leaves the value at the path of a subscription hook
\* as it was (it changed disjoint paths only, or set a value that was
\* already there) propagates no change to the hook's component, whether the
\* value at the path is a primitive, an object or an array.
C22_HookIsolation ==
    PathUntouched => ~consumer.propagated

\* reHydrate() settles with success, having been the first operation on a
\* store created over a storage that holds the state of the last commit
RoundTrip ==
    /\ api.reHydrate = "pending"
    /\ api'.reHydrate = "resolved"
    /\ api.first
    /\ api.seen.kind = "object"

\* C23: when a store with the persist middleware has committed a state s and
\* the write went through, a store created afterwards with the same key and
\* version has, once its reHydrate() has resolved, every persisted field of
\* s with the value it has in s
C23_PersistenceRoundTrip ==
    [][RoundTrip =>
          \A k \in DOMAIN api.seen.value :
              k \in DOMAIN state' /\ state'[k] = api.seen.value[k]]_vars

\* the continuation at the head of the queue is of kind `kind` and this
\* step runs it
Runs(kind) ==
    /\ microtasks.queue # <<>>
    /\ Head(microtasks.queue).kind = kind
    /\ microtasks' # microtasks
    /\ (microtasks'.draining \/ microtasks'.queue = <<>>)

\* the versions from `from` to `to` that have a migration step, in
\* increasing order
RECURSIVE StepsDue(_, _, _)
StepsDue(steps, from, to) ==
    IF from > to THEN <<>>
    ELSE (IF from \in DOMAIN steps /\ steps[from] # "none" THEN <<from>> ELSE <<>>)
            \o StepsDue(steps, from + 1, to)

\* the trail a state has when the steps of the versions `due` have stamped
\* it one after the other, each on the result of the one before
RECURSIVE TrailAfter(_, _)
TrailAfter(n, due) ==
    IF due = <<>> THEN n ELSE TrailAfter(n * 10 + Head(due), Tail(due))

\* what migrate() is expected to do when it has read and decoded `parsed`
\* and hands `out` to reHydrate
MigrationAsClaimed(parsed, out) ==
    LET s == StoredVersion(localStorage.version)
        t == persist.version
        due == StepsDue(persist.steps, s + 1, t)
    IN IF s >= t
       THEN /\ out.ok
            /\ out.value = parsed
            /\ localStorage' = localStorage
       ELSE /\ (parsed.kind = "object" /\ \A i \in 1..Len(due) : persist.steps[due[i]] = "stamp")
                  => out.ok
            /\ out.ok =>
                  /\ out.value.kind = "object"
                  /\ \A k \in DOMAIN parsed.value \ {"migrated", "migratedVersion", "trail"} :
                        out.value.value[k] = parsed.value[k]
                  /\ TrailOf(out.value.value) = TrailAfter(TrailOf(parsed.value), due)
                  /\ due # <<>> =>
                        /\ out.value.value.migrated
                        /\ out.value.value.migratedVersion = due[Len(due)]
                  /\ localStorage'.version = Marker(t)

\* C24: with a stored version marker s below the engine's version t,
\* migrate() runs the steps configured for s+1 .. t in increasing order, each
\* on the result of the one before and with its own version; when
\* reHydrate() has resolved the state has the fields of the final result and
\* the marker reads t.  With s >= t no step runs
C24_MigrationInOrder ==
    [][/\ (/\ Runs("migrate")
           /\ persist.hasSteps
           /\ Head(microtasks.queue).ok
           /\ ~Parse(Head(microtasks.queue).value).throws)
          => MigrationAsClaimed(Parse(Head(microtasks.queue).value).value,
                                microtasks'.queue[Len(microtasks'.queue)])
       /\ (/\ Runs("reHydrate")
           /\ Head(microtasks.queue).ok
           /\ \E i \in 1..Len(callbacks) : callbacks[i].name = "onMigrationSuccess")
          => /\ api'.reHydrate = "resolved"
             /\ localStorage'.version = Marker(persist.version)
             /\ \A k \in {"migrated", "migratedVersion", "trail"} :
                   /\ k \in DOMAIN state'
                   /\ state'[k] = Head(microtasks.queue).value.value[k]]_vars

\* reHydrate() has resolved on a store of version 3 over a state persisted
\* at version 1: the steps of versions 2 and 3 have run in that order
C24_Witness ==
    /\ api.reHydrate = "resolved"
    /\ persist.version = 3
    /\ localStorage.version = Marker(3)
    /\ "trail" \in DOMAIN state
    /\ state.trail = 23
    /\ state.migratedVersion = 3
    /\ state.count = 1

\* the callback `name` has been invoked since the queue started to run
Invoked_Callback(log, name) == \E i \in 1..Len(log) : log[i].name = name

\* migrate() has read and decoded the stored payload, its engine has steps
\* to run, and this step runs them
StepsRun ==
    /\ Runs("migrate")
    /\ persist.hasSteps
    /\ Head(microtasks.queue).ok
    /\ ~Parse(Head(microtasks.queue).value).throws
    /\ StoredVersion(localStorage.version) < persist.version

\* one of the steps that are due throws
ThrowingStepDue ==
    \E v \in (StoredVersion(localStorage.version) + 1)..persist.version :
        v \in DOMAIN persist.steps /\ persist.steps[v] = "throws"

\* C25: the version marker is written only when every migration step has
\* returned.  When a step throws, the marker and the stored payload stay as
\* they were, onMigrationFailure is invoked, and the error rejects migrate()
\* and with it reHydrate()
C25_MarkerOnlyAfterAllSteps ==
    [][/\ StepsRun =>
            LET out == microtasks'.queue[Len(microtasks'.queue)]
            IN IF ThrowingStepDue \/ ~out.ok
               THEN /\ ~out.ok
                    /\ out.kind = "reHydrate"
                    /\ out.error # NoError
                    /\ localStorage' = localStorage
                    /\ Invoked_Callback(callbacks', "onMigrationFailure")
                    /\ ~Invoked_Callback(callbacks', "onMigrationSuccess")
               ELSE localStorage'.version = Marker(persist.version)
       /\ (Runs("reHydrate") /\ ~Head(microtasks.queue).ok)
            => /\ api'.reHydrate = "rejected"
               /\ api'.error = Head(microtasks.queue).error
               /\ api'.error # NoError]_vars

\* reHydrate() has been rejected with the error of a migration step; the
\* storage still holds the payload and the marker of version 1
C25_Witness ==
    /\ api.reHydrate = "rejected"
    /\ api.error.type = "migration failed"
    /\ Invoked_Callback(callbacks, "onMigrationFailure")
    /\ persist.version > 1
    /\ localStorage.version = Marker(1)
    /\ localStorage.item.kind = "text"

\* persist.reHydrate() or persist.clear() is called on a store without a
\* persist engine, and its promise resolves
ResolvesWithoutEngine ==
    /\ ~persist.configured
    /\ \/ api.reHydrate # "resolved" /\ api'.reHydrate = "resolved"
       \/ api.clear # "resolved" /\ api'.clear = "resolved"

\* C26: on a store without a persist engine persist.reHydrate() and
\* persist.clear() resolve at once; the state stays as it is, no middleware
\* runs, no subscriber is notified, and nothing is read from or written to
\* the storage
C26_NoEngineNoOp ==
    /\ [](~persist.configured =>
            /\ api.reHydrate \in {"none", "resolved"}
            /\ api.clear \in {"none", "resolved"}
            /\ microtasks = NoTasks
            /\ callbacks = <<>>)
    /\ [][ResolvesWithoutEngine =>
            /\ state' = state
            /\ pc' = pc
            /\ trace' = trace
            /\ calls' = calls
            /\ delivered' = delivered
            /\ localStorage' = localStorage]_vars

\* both calls have resolved on a store without an engine that has a
\* subscriber and has been updated
C26_Witness ==
    /\ ~persist.configured
    /\ api.reHydrate = "resolved"
    /\ api.clear = "resolved"
    /\ Has(listeners, "l1")
    /\ state.count = 1

\* C27: reHydrate() merges the persisted value into the state at the top
\* level only: every top-level key of the persisted value has afterwards the
\* persisted value in full, the other keys keep their value, and
\* onRehydrateSuccess is called once, with the merged state
C27_ShallowMerge ==
    [][(/\ Runs("reHydrate")
        /\ Head(microtasks.queue).ok
        /\ Head(microtasks.queue).value.kind = "object")
       => /\ state' = Assign(state, Head(microtasks.queue).value.value)
          /\ callbacks'[Len(callbacks')] = Callback("onRehydrateSuccess", JsonObject(state'))
          /\ \A i \in 1..(Len(callbacks') - 1) :
                callbacks'[i].name # "onRehydrateSuccess"]_vars

\* C28: when migrate() rejects (the read, the decoding or a migration step
\* failed), reHydrate() invokes onRehydrateFailure with the error and leaves
\* the state as it is
C28_RehydrateFailureReported ==
    [][(Runs("reHydrate") /\ ~Head(microtasks.queue).ok)
       => /\ state' = state
          /\ Invoked_Callback(callbacks', "onRehydrateFailure")]_vars

\* destroy() is called on a store that has subscribers, and returns
DestroyReturns ==
    /\ api'.destroyed # api.destroyed
    /\ api.destroyed \subseteq api'.destroyed

\* C29: destroy() empties the listener set and starts a persist clear it does
\* not wait for.  A listener that was subscribed when destroy() was called
\* is in the set no more and is invoked by no later update; destroy()
\* returns to its caller with the clear still unsettled, whether the clear
\* fails later or not
C29_DestroyClearsSubscribers ==
    /\ [](\A l \in api.destroyed :
             /\ ~Has(listeners, l)
             /\ calls[l] = 0
             /\ ~delivered[l].delivered)
    /\ [][DestroyReturns =>
             /\ listeners' = <<>>
             /\ pc' = "idle"
             /\ thrown' = NoError
             /\ state' = state
             /\ api'.clear = IF persist.configured THEN "pending" ELSE "resolved"
             /\ callbacks' = callbacks]_vars

\* l1 was subscribed when destroy() was called, the persist clear has
\* failed since, and a later update has gone through without a call to l1
C29_Witness ==
    /\ "l1" \in api.destroyed
    /\ api.clear = "rejected"
    /\ Invoked_Callback(callbacks, "onPersistFailure")
    /\ pc = "returned"
    /\ result = "ok"
    /\ state.count = 1
    /\ calls["l1"] = 0

\* the after-middleware loop is at the persist middleware, which has a
\* difference to persist and an engine, and this step runs it
PersistMiddlewareRuns ==
    /\ pc = "after"
    /\ idx <= Len(localMergedConfig.afterMiddlewares)
    /\ localMergedConfig.afterMiddlewares[idx] = "persist"
    /\ stateDiff # {}
    /\ persist.configured
    /\ trace' # trace

\* the continuation of a write the persist middleware started waits in the
\* queue; `ok` tells whether the write went through
WritePending(ok) ==
    \E i \in 1..Len(microtasks.queue) :
        /\ microtasks.queue[i].kind = "persistState"
        /\ microtasks.queue[i].origin = "middleware"
        /\ microtasks.queue[i].ok = ok

\* C30: the pipeline does not wait for the persist middleware's storage
\* write.  The middleware returns with the write's continuation pending,
\* whether the write went through or not: the committed state stays, the
\* call goes on to notify the subscribers and returns without an error.  No
\* continuation runs and no engine callback is invoked while the call is in
\* progress; the outcome of the write is reported afterwards, through
\* onPersistSuccess or onPersistFailure, and changes neither the state nor
\* the result of the call
C30_PersistFireAndForget ==
    /\ [][PersistMiddlewareRuns =>
             /\ pc' # "catch"
             /\ raised' = NoError
             /\ state = nextState
             /\ state' = state
             /\ Len(microtasks'.queue) = Len(microtasks.queue) + 1
             /\ microtasks'.queue[Len(microtasks'.queue)].kind = "persistState"]_vars
    /\ [][pc # "idle" =>
             /\ callbacks' = callbacks
             /\ Len(microtasks'.queue) >= Len(microtasks.queue)
             /\ SubSeq(microtasks'.queue, 1, Len(microtasks.queue)) = microtasks.queue]_vars
    /\ []((pc = "returned" /\ result = "ok" /\ (WritePending(TRUE) \/ WritePending(FALSE)))
             => /\ state = nextState
                /\ \A i \in 1..Len(listeners) : calls[listeners[i]] = 1)
    /\ [][(Runs("persistState") /\ Head(microtasks.queue).origin = "middleware")
             => /\ state' = state
                /\ pc' = "idle"
                /\ thrown' = thrown
                /\ result' = result
                /\ callbacks'[Len(callbacks')].name =
                      IF Head(microtasks.queue).ok THEN "onPersistSuccess"
                      ELSE "onPersistFailure"]_vars

\* an update has gone through and its subscriber has been notified while the
\* continuation of its storage write, which failed, still waits
C30_Witness ==
    /\ pc = "returned"
    /\ result = "ok"
    /\ state.count = 1
    /\ Has(listeners, "l1")
    /\ calls["l1"] = 1
    /\ WritePending(FALSE)

\* the catch block of a call for which rollbackOnError is enabled runs
RollsBack ==
    /\ pc = "catch"
    /\ pc' = "returned"
    /\ localMergedConfig.rollbackOnError

\* C31: when an update fails and rollbackOnError is enabled, the state is
\* again the one from before the call, and every subscribed listener is
\* invoked once for the rollback, with a snapshot equal to that state
C31_RollbackNotifiesEveryone ==
    [][RollsBack =>
          /\ state' = stateAtCall
          /\ \A i \in 1..Len(listeners) :
                /\ calls'[listeners[i]] = calls[listeners[i]] + 1
                /\ delivered'[listeners[i]] = Snapshot(stateAtCall)]_vars

\* the same, for the rollbacks during which no listener throws
C31_RollbackWithoutListenerError ==
    [][(RollsBack /\ thrown' = raised) =>
          /\ state' = stateAtCall
          /\ \A i \in 1..Len(listeners) :
                /\ calls'[listeners[i]] = calls[listeners[i]] + 1
                /\ delivered'[listeners[i]] = Snapshot(stateAtCall)]_vars

\* the left fold of a chain over a candidate, for the transformers that
\* return: immerTransformer applies the update function to the candidate it
\* is handed, a user transformer hands its candidate on
RECURSIVE FoldLeft(_, _, _)
FoldLeft(chain, candidate, upd) ==
    IF chain = <<>> THEN candidate
    ELSE FoldLeft(Tail(chain),
                  IF Head(chain) = "immerTransformer"
                  THEN MutateAll(Head(Body(upd.name)), candidate, upd.args)
                  ELSE candidate,
                  upd)

\* the call in progress is a function update through a chain of transformers
FoldsChain ==
    /\ pc # "idle"
    /\ Step1Branch(updater, localMergedConfig) = "transformers"

\* C32: a function update is folded through the chain from the left: the
\* first transformer starts from a copy of the current state, each
\* transformer starts from what the one before returned, all of them get the
\* same prevState, and what the last one returned is diffed against
\* prevState and committed
C32_TransformerFold ==
    FoldsChain =>
        LET chain == localMergedConfig.transformers
            folded == FoldLeft(chain, stateAtCall, updater)
        IN  /\ prevState = stateAtCall
            /\ pc = "step1" =>
                  nextState = FoldLeft(SubSeq(chain, 1, idx - 1), stateAtCall, updater)
            /\ (pc \notin {"step1", "catch"} /\ result # "thrown") =>
                  nextState = folded
            /\ pc \in {"before", "after", "notify"} =>
                  stateDiff = Diff(stateAtCall, folded)
            /\ (Returned /\ result = "ok") =>
                  state = folded /\ Diff(stateAtCall, folded) # {}
            /\ (Returned /\ result = "noop") =>
                  state = stateAtCall /\ Diff(stateAtCall, folded) = {}

\* an increment through immerTransformer, a user transformer and
\* immerTransformer again has been committed: the count went up by two
C32_Witness ==
    /\ Returned
    /\ result = "ok"
    /\ updater = Fn("increment")
    /\ localMergedConfig.transformers =
          <<"immerTransformer", "userTransformer", "immerTransformer">>
    /\ state.count = stateAtCall.count + 2

\* C33: a middleware gets a copy of the candidate: whatever it writes to its
\* nextState argument, the candidate the later middlewares are handed, the
\* state that is committed and the snapshot the subscribers get equal the
\* candidate the transformers produced
C33_MiddlewareGetsCopy ==
    FoldsChain =>
        LET candidate == FoldLeft(localMergedConfig.transformers, stateAtCall, updater)
        IN  /\ pc \in {"diff", "before", "commit", "after", "notify"} =>
                  nextState = candidate
            /\ pc \in {"after", "notify"} => state = candidate
            /\ (Returned /\ result = "ok") =>
                  /\ state = candidate
                  /\ \A i \in 1..Len(listeners) :
                        delivered[listeners[i]] = Snapshot(candidate)

\* a middleware has written to its nextState argument, and the call has
\* committed and told the subscriber
C33_Witness ==
    /\ Returned
    /\ result = "ok"
    /\ listeners = <<"l1">>
    /\ held.taken
    /\ held.role = "nextState"
    /\ held.value # held.first
    /\ delivered["l1"] = Snapshot(held.first)
    /\ \E i \in 1..Len(trace) : trace[i] = <<"after", 2>>

\* a callback writes to the argument it was handed
WritesArgument == ~held.taken /\ held'.taken

\* C39: no callback can change the state of the store through an argument:
\* a write to a prevState, nextState, snapshot or lastGoodState argument
\* leaves the state as it is, and when the call has ended the state is the
\* one from before the call or the candidate of the call, whatever was
\* written
C39_ArgumentsNeverAlias ==
    /\ [][WritesArgument => state' = state]_vars
    /\ [](Returned /\ held.taken /\ FoldsChain =>
             state \in {stateAtCall,
                        FoldLeft(localMergedConfig.transformers, stateAtCall, updater)})

\* the same for the snapshot of a listener and the nextState of a middleware
C39_ClonedArguments ==
    /\ [][(WritesArgument /\ held'.role \in {"snapshot", "nextState"}) =>
             state' = state]_vars
    /\ [](Returned /\ held.taken /\ held.role \in {"snapshot", "nextState"}
             /\ FoldsChain =>
             state \in {stateAtCall,
                        FoldLeft(localMergedConfig.transformers, stateAtCall, updater)})

\* a partial-object update has succeeded
PartialSucceeded == Returned /\ result = "ok" /\ updater.kind = "object"

\* C34: after a successful setState(partial) every top-level key of the
\* partial has the value supplied, and every other key has the value it had
\* before the call
C34_PartialSetsWhatItNames ==
    PartialSucceeded =>
        \A k \in DOMAIN state :
            state[k] = IF k \in DOMAIN updater.object
                       THEN updater.object[k] ELSE stateAtCall[k]

\* the same for the keys that are not supplied and for the keys that hold
\* neither an array nor an object
C34_PartialSetsPrimitives ==
    PartialSucceeded =>
        /\ DOMAIN state = DOMAIN stateAtCall
        /\ \A k \in DOMAIN state :
              /\ k \notin DOMAIN updater.object => state[k] = stateAtCall[k]
              /\ (k \in DOMAIN updater.object /\ k = "count") =>
                    state[k] = updater.object[k]

\* a call that changed the state returns to its caller
ReturnsChanged == pc = "returned" /\ pc' = "idle" /\ state # stateAtCall

\* the state changes while no call is in progress
ChangesOutsideCall == pc = "idle" /\ pc' = "idle" /\ state' # state

\* every listener's last snapshot equals the state
InSync == \A i \in 1..Len(listeners) : delivered[listeners[i]] = Snapshot(state)

\* a call that changed the state leaves every listener with the new state
C35_InSyncAfterCall == [][ReturnsChanged => InSync]_vars

\* the state changes outside a call only when nobody is subscribed
C35_InSyncOutsideCall == [][ChangesOutsideCall => listeners = <<>>]_vars

\* C35: whenever no call is in progress, the last snapshot delivered to each
\* listener subscribed since before the state last changed equals the state:
\* a call that changed the state has delivered the new state to every
\* listener when it returns, and nothing changes the state between calls
\* while a listener is subscribed
C35_SubscribersInSync ==
    /\ [][ReturnsChanged => InSync]_vars
    /\ [][ChangesOutsideCall => listeners = <<>>]_vars

\* the persist middleware has run in the call in progress and its write to
\* the storage went through
PersistedInCall ==
    /\ persist.configured
    /\ \E i \in 1..Len(trace) :
          /\ trace[i][1] = "after"
          /\ localMergedConfig.afterMiddlewares[trace[i][2]] = "persist"
    /\ microtasks.queue # <<>>
    /\ microtasks.queue[Len(microtasks.queue)].kind = "persistState"
    /\ microtasks.queue[Len(microtasks.queue)].ok

\* the state a later migrate() reads from the storage: getItem parses the
\* item, migrate parses what getItem returned
Decoded(storage) ==
    IF WebStorageGetItem(storage).throws THEN WebStorageGetItem(storage)
    ELSE Parse(WebStorageGetItem(storage).value)

\* C36: when a call whose persist middleware has written to the storage has
\* ended, the payload in the storage decodes to the state the store holds,
\* also when the call was rolled back after the write
C36_NoRolledBackPayload ==
    (Returned /\ PersistedInCall) => Decoded(localStorage) = JsonOk(JsonObject(state))

\* the same for the calls that end without an error
C36_CommittedPayload ==
    (Returned /\ result = "ok" /\ PersistedInCall) =>
        Decoded(localStorage) = JsonOk(JsonObject(state))

\* a step writes a payload under the engine's key
WritesPayload == localStorage'.item # localStorage.item /\ localStorage'.item.kind # "null"

\* a later migrate() reads the payload back as a state object
ReadsBack(storage) == ~Decoded(storage).throws /\ Decoded(storage).value.kind = "object"

\* C37: every payload the engine writes under its key, by the persist
\* middleware or by migrate() after its migration steps, is read back as a
\* state object by a later migrate()
C37_WrittenPayloadReadsBack ==
    [][WritesPayload => ReadsBack(localStorage')]_vars

\* the same for the payloads the persist middleware writes
C37_MiddlewarePayloadReadsBack ==
    [][(WritesPayload /\ pc = "after") =>
          /\ ReadsBack(localStorage')
          /\ Decoded(localStorage').value = JsonObject(nextState)]_vars

\* C38: clearPersistedState() removes the engine's own payload and version
\* marker only: no step of the store, persist.clear() and destroy()
\* included, removes an entry another store keeps in the same storage
C38_ClearKeepsOtherKeys ==
    [][localStorage.others \subseteq localStorage'.others]_vars

\* the same for the steps that are not the start of a clear
C38_OnlyClearRemoves ==
    [][api'.clear = api.clear => localStorage.others \subseteq localStorage'.others]_vars

\* the outcome callback of a write: onPersistSuccess or onPersistFailure
OutcomeOf(t) == IF t.ok THEN "onPersistSuccess" ELSE "onPersistFailure"

\* how many times the log holds an outcome callback
Outcomes(log) ==
    Cardinality({i \in 1..Len(log) :
                    log[i].name \in {"onPersistSuccess", "onPersistFailure"}})

\* the continuation of a write the persist middleware started runs: the one
\* behind the await of persistState
EngineSettlesWrite ==
    Runs("persistState") /\ Head(microtasks.queue).origin = "middleware"

\* the continuation the persist middleware chained to the write runs
MiddlewareSettlesWrite == Runs("then") \/ Runs("catch")

\* the write is reported once when persistState goes on behind its await
C40_ReportedByEngine ==
    [][EngineSettlesWrite =>
          /\ callbacks' # <<>>
          /\ callbacks'[Len(callbacks')].name = OutcomeOf(Head(microtasks.queue))
          /\ Outcomes(callbacks') = (IF microtasks.draining THEN Outcomes(callbacks) ELSE 0) + 1]_vars

\* C40: for each write the persist middleware starts, exactly one of
\* onPersistSuccess / onPersistFailure is invoked, once, when the write has
\* completed or failed: the continuation of persistState reports the
\* outcome, and the continuation the middleware chained to it does not
\* report it again
C40_OutcomeReportedOnce ==
    /\ [][EngineSettlesWrite =>
             /\ callbacks' # <<>>
             /\ callbacks'[Len(callbacks')].name = OutcomeOf(Head(microtasks.queue))]_vars
    /\ [][MiddlewareSettlesWrite => Outcomes(callbacks') = Outcomes(callbacks)]_vars

====
